---- MODULE Spec2Model ----
(***************************************************************************)
(* A model of the CBR/CBZ to PDF converter.  The repository holds three    *)
(* server files: the current disk-backed server with a file registry       *)
(* ("server"), its older variant ("legacy"), and the memory-backed         *)
(* single-shot server ("memory").  The variable `variant` says which one   *)
(* handles the request being modelled.                                     *)
(*                                                                         *)
(* Strings are modelled as sequences of tokens: a token is one character   *)
(* ("a", "1", "/") or a whole file extension (".jpg").  The archive, image *)
(* and PDF libraries are modelled by their interface: opening an archive   *)
(* of the wrong kind throws, an extraction, a re-encoding or an embedding  *)
(* may fail, and what fails is the environment's choice.                   *)
(***************************************************************************)
EXTENDS Integers, Sequences, FiniteSets, TLC

VARIABLES
    variant,    \* "server" | "legacy" | "memory": the server file that runs
    upFile,     \* the uploaded file being ingested: [name, buf, kind, entries]
    listing,    \* the outcome of listing upFile, or NoListing
    fileStore,  \* the registry: file id -> metadata of an ingested archive
    req,        \* the conversion request being handled
    pc,         \* where the conversion handler stands
    jobIdx,     \* the job (or uploaded file) the handler is at, from 1
    pageIdx,    \* the position in the job's page list the handler is at, from 1
    pdfDoc,     \* the pages of the PDF document being assembled
    results,    \* the PDFs finished so far: [filename, data, job]
    res,        \* the response sent, or NoResponse
    log,        \* history: for each page handled, [job, idx, ok]
    names,      \* the entry names an archive listing collected, in archive order
    sorted,     \* the page list: names after imageFiles.sort(naturalSort)
    passes,     \* how many times the page list was sorted
    disk,       \* the ids whose uploaded file is in the uploads directory
    upRes,      \* the response to the upload (memory: to the page count request)
    previewCache, \* the keys of the preview cache, in insertion order
    queue,      \* extractionQueue.queue: the admitted previews not yet started
    flights,    \* the preview and delete requests whose handler is suspended
    lastRes,    \* the response sent last by files, preview or delete
    deleted,    \* history: the ids whose delete was answered after removing them
    nUp,        \* how many uploads were handled
    nPrev,      \* how many preview requests arrived
    nDel,       \* how many delete requests arrived
    imgSize,    \* the width and height of the embedded image being placed
    placed,     \* where the image is drawn on its page, or NoPlacement
    rangeIn,    \* the page count and the pageStart, pageEnd texts of a range
    pageSet,    \* the page indices the range resolves to, or NoPages
    pqLog,      \* history: the adds, starts and settlements of the queue's tasks
    promise,    \* the state of the promise add() returned for each task
    want,       \* the entry whose bytes are asked for: handle, name, caller
    got         \* the outcome of the extraction, or NoBytes

ingestVars == <<upFile, listing, disk, upRes>>

convertVars == <<fileStore, req, pc, jobIdx, pageIdx, pdfDoc, results, res, log>>

\* The conversion handler's own variables (the registry is shared).
convertRun == <<req, pc, jobIdx, pageIdx, pdfDoc, results, res, log>>

sortVars == <<names, sorted, passes>>

\* The variables no ingestion action, and no conversion action, writes.
serveVars == <<previewCache, queue, flights, lastRes, deleted, nUp, nPrev, nDel>>

placeVars == <<imgSize, placed>>

rangeVars == <<rangeIn, pageSet>>

queueVars == <<pqLog, promise>>

resolveVars == <<want, got>>

\* The variables of the computations modelled on their own.
pureVars == <<placeVars, rangeVars, queueVars, resolveVars>>

ingestFrame == <<convertRun, sortVars, serveVars, pureVars>>

convertFrame == <<sortVars, disk, upRes, serveVars, pureVars>>

sortFrame == <<disk, upRes, serveVars, pureVars>>

serveFrame == <<convertRun, sortVars, pureVars>>

vars == <<variant, upFile, listing, fileStore, req, pc, jobIdx, pageIdx, pdfDoc,
          results, res, log, sortVars, disk, upRes, serveVars, pureVars>>

(***************************************************************************)
(* Bounds of the model.                                                    *)
(***************************************************************************)
MaxEntries == 2     \* entries of an uploaded archive
MaxPad == 2         \* filler bytes that follow a signature prefix
MaxJobs == 2        \* jobs of one conversion request
MaxFiles == 3       \* files uploaded with one batch conversion
MaxNames == 3       \* names of a page list that is sorted
MaxPages == 3       \* pages of the archive whose range is resolved
MaxTasks == 4       \* tasks added to a queue modelled on its own
MaxUploads == 2     \* uploads served
MaxRequests == 3    \* preview and delete requests served
CacheCapacity == 2  \* the size the preview cache is held to (CACHE_MAX_SIZE)

(***************************************************************************)
(* Tokens and names.                                                       *)
(***************************************************************************)
Digits == {"0", "1", "2"}

SEPARATORS == {"/", "\\"}

\* String.prototype.toLowerCase on one token.
ToLowerTok(t) ==
    CASE t = "A" -> "a"
      [] t = "B" -> "b"
      [] t = ".JPG" -> ".jpg"
      [] t = ".PNG" -> ".png"
      [] t = ".CBR" -> ".cbr"
      [] t = ".CBZ" -> ".cbz"
      [] OTHER -> t

ToLower(s) == [i \in 1..Len(s) |-> ToLowerTok(s[i])]

ExtTokens == {".jpg", ".JPG", ".jpeg", ".png", ".PNG", ".gif", ".webp",
              ".txt", ".cbr", ".CBR", ".cbz", ".CBZ", ".zip", ".pdf"}

\* path.extname(name).toLowerCase()
ExtName(name) ==
    IF Len(name) > 0 /\ name[Len(name)] \in ExtTokens
    THEN ToLowerTok(name[Len(name)])
    ELSE ""

\* /\.(jpg|jpeg|png|gif|webp)$/i.test(name)
IMAGE_EXT == {".jpg", ".jpeg", ".png", ".gif", ".webp"}

IsImageName(name) == ExtName(name) \in IMAGE_EXT

RECURSIVE LastSepFrom(_, _, _)
LastSepFrom(s, seps, i) ==
    IF i = 0 THEN 0
    ELSE IF s[i] \in seps THEN i
    ELSE LastSepFrom(s, seps, i - 1)

\* name.split(<separators>).pop()
BaseNameBy(s, seps) == SubSeq(s, LastSepFrom(s, seps, Len(s)) + 1, Len(s))

(***************************************************************************)
(* naturalSort.  The memory server compares the lower-cased basenames run  *)
(* by run; the registry servers call localeCompare with numeric collation  *)
(* and base sensitivity on the whole entry name.                           *)
(***************************************************************************)
\* The collation rank of a token: punctuation, then digits, then letters.
TokRank(t) ==
    CASE t = "/" -> 1
      [] t = "\\" -> 2
      [] t = ".gif" -> 3
      [] t = ".jpeg" -> 4
      [] t = ".jpg" -> 5
      [] t = ".JPG" -> 6
      [] t = ".png" -> 7
      [] t = ".PNG" -> 8
      [] t = ".txt" -> 9
      [] t = ".webp" -> 10
      [] t = "0" -> 20
      [] t = "1" -> 21
      [] t = "2" -> 22
      [] t = "a" -> 30
      [] t = "A" -> 31
      [] t = "b" -> 32
      [] t = "B" -> 33
      [] t = "c" -> 34
      [] t = "d" -> 36
      [] t = "e" -> 38
      [] t = "n" -> 40
      [] t = "p" -> 42
      [] t = "x" -> 44
      [] OTHER -> 50

RECURSIVE RunEnd(_, _, _)
\* The last index of the run of digits (or of non-digits) that starts at i.
RunEnd(s, i, digit) ==
    IF i < Len(s) /\ ((s[i + 1] \in Digits) = digit)
    THEN RunEnd(s, i + 1, digit)
    ELSE i

RECURSIVE PartsFrom(_, _)
\* s.match(/(\d+|\D+)/g) || [], from index i on
PartsFrom(s, i) ==
    IF i > Len(s) THEN <<>>
    ELSE LET e == RunEnd(s, i, s[i] \in Digits)
         IN  <<SubSeq(s, i, e)>> \o PartsFrom(s, e + 1)

Parts(s) == PartsFrom(s, 1)

\* /^\d+$/.test(part)
IsNumeric(part) == Len(part) > 0 /\ \A i \in 1..Len(part) : part[i] \in Digits

DigitVal(t) == CASE t = "0" -> 0 [] t = "1" -> 1 [] t = "2" -> 2 [] OTHER -> 0

RECURSIVE ParseIntUpTo(_, _)
ParseIntUpTo(part, n) ==
    IF n = 0 THEN 0 ELSE 10 * ParseIntUpTo(part, n - 1) + DigitVal(part[n])

\* A comparison of digit runs by their first digit only.
ParseIntFirstDigit(part) == DigitVal(part[1])

\* parseInt(part, 10) of a run of digits
ParseInt(part) == ParseIntUpTo(part, Len(part))

Sign(n) == IF n < 0 THEN -1 ELSE IF n > 0 THEN 1 ELSE 0

RECURSIVE StrCompareFrom(_, _, _)
\* partA.localeCompare(partB), as a sign
StrCompareFrom(a, b, i) ==
    IF i > Len(a) /\ i > Len(b) THEN 0
    ELSE IF i > Len(a) THEN -1
    ELSE IF i > Len(b) THEN 1
    ELSE IF TokRank(a[i]) # TokRank(b[i]) THEN Sign(TokRank(a[i]) - TokRank(b[i]))
    ELSE StrCompareFrom(a, b, i + 1)

StrCompare(a, b) == StrCompareFrom(a, b, 1)

Max(a, b) == IF a >= b THEN a ELSE b

Min(a, b) == IF a <= b THEN a ELSE b

PartAt(parts, i) == IF i <= Len(parts) THEN parts[i] ELSE <<>>

RECURSIVE ComparePartsFrom(_, _, _)
ComparePartsFrom(pa, pb, i) ==
    IF i > Max(Len(pa), Len(pb)) THEN 0
    ELSE LET partA == PartAt(pa, i)
             partB == PartAt(pb, i)
         IN  IF IsNumeric(partA) /\ IsNumeric(partB)
             THEN IF ParseInt(partA) # ParseInt(partB)
                  THEN Sign(ParseInt(partA) - ParseInt(partB))
                  ELSE ComparePartsFrom(pa, pb, i + 1)
             ELSE IF partA # partB
                  THEN StrCompare(partA, partB)
                  ELSE ComparePartsFrom(pa, pb, i + 1)

\* naturalSort of the memory server, as a sign.
naturalSort(a, b) ==
    ComparePartsFrom(Parts(ToLower(BaseNameBy(a, SEPARATORS))),
                     Parts(ToLower(BaseNameBy(b, SEPARATORS))), 1)

\* naturalSort of the registry servers:
\* a.localeCompare(b, undefined, {numeric: true, sensitivity: 'base'}).
localeNaturalSort(a, b) == ComparePartsFrom(Parts(ToLower(a)), Parts(ToLower(b)), 1)

Compare(v, a, b) == IF v = "memory" THEN naturalSort(a, b) ELSE localeNaturalSort(a, b)

RECURSIVE InsertSorted(_, _, _)
\* x put into the sorted s after every element that does not compare greater.
InsertSorted(v, s, x) ==
    IF s = <<>> THEN <<x>>
    ELSE IF Compare(v, x, s[Len(s)]) >= 0 THEN Append(s, x)
    ELSE Append(InsertSorted(v, SubSeq(s, 1, Len(s) - 1), x), s[Len(s)])

RECURSIVE SortUpTo(_, _, _)
SortUpTo(v, s, n) ==
    IF n = 0 THEN <<>> ELSE InsertSorted(v, SortUpTo(v, s, n - 1), s[n])

\* imageFiles.sort(naturalSort): Array.prototype.sort is stable.
SortNames(v, s) == SortUpTo(v, s, Len(s))

(***************************************************************************)
(* Uploaded files.  A file is its name, its bytes (the leading bytes that   *)
(* the signature checks read, and the length), the archive kind its        *)
(* content really has ("bad": no archive library opens it) and, for a real *)
(* archive, its entries in archive order.                                  *)
(***************************************************************************)
ZIP_SIGNATURE == <<80, 75, 3, 4>>                  \* 50 4B 03 04

RAR_SIGNATURE == <<82, 97, 114, 33, 26, 7, 0>>     \* 52 61 72 21 1A 07 00

\* Other leading bytes met in practice: an empty ZIP (end-of-central-directory
\* record first) and the RAR 5 signature.
ZipEmptyHead == <<80, 75, 5, 6>>

Rar5Head == <<82, 97, 114, 33, 26, 7, 1, 0>>

\* n bytes that belong to no signature.
Pad(n) == [i \in 1..n |-> 255]

Heads == {ZIP_SIGNATURE, RAR_SIGNATURE, ZipEmptyHead, Rar5Head}

Buffers == UNION { {SubSeq(h, 1, k) \o Pad(j) : k \in 0..Len(h), j \in 0..MaxPad} : h \in Heads }

StartsWith(buffer, sig) ==
    Len(buffer) >= Len(sig) /\ SubSeq(buffer, 1, Len(sig)) = sig

NameA == <<"a", ".jpg">>

NameB == <<"b", ".jpg">>

NameC == <<"c", ".jpg">>

NameX == <<"x", ".PNG">>

NameDirB == <<"d", "/", "b", ".jpg">>

NameTxt == <<"n", ".txt">>

Entry(name, dir, enc) == [name |-> name, dir |-> dir, enc |-> enc]

\* The entries an archive of the model may hold: images, an image in a
\* directory, a text file, a directory whose name ends like an image, and an
\* encrypted image.
CandidateEntries ==
    { Entry(NameA, FALSE, FALSE), Entry(NameDirB, FALSE, FALSE),
      Entry(NameX, FALSE, FALSE), Entry(NameTxt, FALSE, FALSE),
      Entry(<<"e", ".jpg">>, TRUE, FALSE), Entry(NameC, FALSE, TRUE) }

SeqsUpToLen(S, n) == UNION { [1..k -> S] : k \in 0..n }

NoRepeat(s) == \A i, j \in 1..Len(s) : i # j => s[i] # s[j]

EntryLists ==
    UNION { { s \in [1..n -> CandidateEntries] : NoRepeat(s) } : n \in 0..MaxEntries }

FileNames == { <<"v", e>> : e \in {".cbr", ".cbz", ".CBZ", ".zip"} }

\* A real archive is longer than its signature, and its leading bytes are not
\* the other kind's signature.
KindsOf(buffer) ==
    {"bad"}
    \cup (IF Len(buffer) > 4 /\ ~StartsWith(buffer, SubSeq(RAR_SIGNATURE, 1, 4))
          THEN {"zip"} ELSE {})
    \cup (IF Len(buffer) > 7 /\ ~StartsWith(buffer, SubSeq(ZIP_SIGNATURE, 1, 2))
          THEN {"rar"} ELSE {})

UploadedFiles ==
    { [name |-> n, buf |-> b, kind |-> k, entries |-> es] :
        n \in FileNames, b \in Buffers, k \in {"zip", "rar", "bad"}, es \in EntryLists }

ValidFile(f) ==
    /\ f.kind \in KindsOf(f.buf)
    /\ f.kind = "bad" => f.entries = <<>>

\* The entries that qualify as pages: image extension, not a directory.
Qualifying(f) == SelectSeq(f.entries, LAMBDA e : ~e.dir /\ IsImageName(e.name))

(***************************************************************************)
(* The archive libraries.                                                  *)
(***************************************************************************)
\* new AdmZip(file) throws unless the content is a ZIP archive.
ZipOpens(f) == f.kind = "zip"

\* createExtractorFromData / getFileList throw unless the content is RAR.
RarOpens(f) == f.kind = "rar"

NamesOf(es) == [i \in 1..Len(es) |-> es[i].name]

\* AdmZip's entry.name: the text after the last "/" of entry.entryName.
ZipEntryBaseName(e) == BaseNameBy(e.name, {"/"})

(***************************************************************************)
(* Signature checks.                                                       *)
(***************************************************************************)
\* server: detectArchiveType
detectArchiveType(buffer) ==
    IF Len(buffer) > 4 /\ buffer[1] = 80 /\ buffer[2] = 75 THEN "zip"
    ELSE IF Len(buffer) > 7 /\ SubSeq(buffer, 1, 7) = RAR_SIGNATURE THEN "rar"
    ELSE "zip"

\* memory: isValidRAR
isValidRAR(buffer) ==
    IF Len(buffer) < 7 THEN FALSE ELSE SubSeq(buffer, 1, 7) = RAR_SIGNATURE

\* memory: isValidZIP
isValidZIP(buffer) ==
    IF Len(buffer) < 4 THEN FALSE
    ELSE buffer[1] = 80 /\ buffer[2] = 75 /\ buffer[3] = 3 /\ buffer[4] = 4

\* memory: the extractor extractImagesFromArchive decides to use first.
ChooseExtractor(buffer, fileName) ==
    IF isValidRAR(buffer) THEN "rar"
    ELSE IF isValidZIP(buffer) THEN "zip"
    ELSE IF ExtName(fileName) = ".cbr" THEN "rar"
    ELSE IF ExtName(fileName) = ".cbz" THEN "zip"
    ELSE "unknown"

(***************************************************************************)
(* Listing an archive.  A listing is [type, imageFiles, attempts, error]:  *)
(* attempts records, in order, the archive kinds whose reader was called.  *)
(***************************************************************************)
Listing(type, imageFiles, attempts, error) ==
    [type |-> type, imageFiles |-> imageFiles, attempts |-> attempts, error |-> error]

ImageNames(es) == NamesOf(SelectSeq(es, LAMBDA e : ~e.dir /\ IsImageName(e.name)))

\* server: getArchiveFileList
getArchiveFileList(f) ==
    LET type == detectArchiveType(f.buf)
        zipFiles == IF type = "zip" /\ ZipOpens(f) THEN ImageNames(f.entries) ELSE <<>>
        zipTried == IF type = "zip" THEN <<"zip">> ELSE <<>>
    IN  IF type = "zip" /\ Len(zipFiles) > 0
        THEN Listing("zip", SortNames("server", zipFiles), zipTried, "")
        ELSE IF type = "rar" \/ Len(zipFiles) = 0
        THEN LET tried == zipTried \o <<"rar">>
                 rarFiles == IF RarOpens(f) THEN ImageNames(f.entries) ELSE <<>>
             IN  IF RarOpens(f) /\ \E i \in 1..Len(f.entries) : f.entries[i].enc
                 THEN Listing("rar-encrypted", <<>>, tried, "")
                 ELSE IF Len(rarFiles) > 0
                 THEN Listing("rar", SortNames("server", rarFiles), tried, "")
                 ELSE Listing("unknown", <<>>, tried, "")
        ELSE Listing(IF Len(zipFiles) > 0 THEN type ELSE "unknown",
                     SortNames("server", zipFiles), zipTried, "")

\* legacy: getArchiveFileList
getArchiveFileListLegacy(f) ==
    LET ext == ExtName(f.name)
        byExt == ext = ".cbr"
        files1 == IF byExt /\ RarOpens(f) THEN ImageNames(f.entries) ELSE <<>>
        type1 == IF byExt /\ RarOpens(f)
                 THEN IF \E i \in 1..Len(f.entries) : f.entries[i].enc
                      THEN "rar-encrypted" ELSE "rar"
                 ELSE "unknown"
        tried1 == IF byExt THEN <<"rar">> ELSE <<>>
        tryZip == type1 = "unknown" \/ Len(files1) = 0
        files2 == IF tryZip /\ ZipOpens(f) THEN files1 \o ImageNames(f.entries) ELSE files1
        type2 == IF tryZip /\ ZipOpens(f) /\ Len(files2) > 0 THEN "zip" ELSE type1
        tried2 == IF tryZip THEN tried1 \o <<"zip">> ELSE tried1
        tryMagic == type2 = "unknown" /\ Len(f.buf) > 7
                    /\ SubSeq(f.buf, 1, 7) = RAR_SIGNATURE
        files3 == IF tryMagic /\ RarOpens(f) THEN files2 \o ImageNames(f.entries) ELSE files2
        type3 == IF tryMagic /\ RarOpens(f) /\ Len(files3) > 0 THEN "rar" ELSE type2
        tried3 == IF tryMagic THEN tried2 \o <<"rar">> ELSE tried2
    IN  Listing(type3, SortNames("legacy", files3), tried3, "")

\* memory: extractImagesFromRAR (the names; throws unless RarOpens)
extractImagesFromRAR(f) == NamesOf(SelectSeq(f.entries, LAMBDA e : IsImageName(e.name)))

\* memory: extractImagesFromZIP (the names; throws unless ZipOpens)
extractImagesFromZIP(f) ==
    LET kept == SelectSeq(f.entries, LAMBDA e : ~e.dir /\ IsImageName(ZipEntryBaseName(e)))
    IN  [i \in 1..Len(kept) |-> ZipEntryBaseName(kept[i])]

Sorted(type, imageFiles, attempts) ==
    IF Len(imageFiles) = 0
    THEN Listing(type, <<>>, attempts, "No images found in archive file")
    ELSE Listing(type, SortNames("memory", imageFiles), attempts, "")

\* memory: extractImagesFromArchive
extractImagesFromArchive(f) ==
    LET isRAR == isValidRAR(f.buf)
        isZIP == isValidZIP(f.buf)
        use == ChooseExtractor(f.buf, f.name)
    IN  CASE use = "unknown" ->
               Listing("unknown", <<>>, <<>>, "Cannot determine archive type")
          [] use = "rar" ->
               IF RarOpens(f) THEN Sorted("rar", extractImagesFromRAR(f), <<"rar">>)
               ELSE IF ~isRAR
               THEN IF ZipOpens(f)
                    THEN Sorted("zip", extractImagesFromZIP(f), <<"rar", "zip">>)
                    ELSE Listing("rar", <<>>, <<"rar", "zip">>, "Failed to extract archive")
               ELSE Listing("rar", <<>>, <<"rar">>, "Failed to extract RAR archive")
          [] use = "zip" ->
               IF ZipOpens(f) THEN Sorted("zip", extractImagesFromZIP(f), <<"zip">>)
               ELSE IF ~isZIP
               THEN IF RarOpens(f)
                    THEN Sorted("rar", extractImagesFromRAR(f), <<"zip", "rar">>)
                    ELSE Listing("zip", <<>>, <<"zip", "rar">>, "Failed to extract archive")
               ELSE Listing("zip", <<>>, <<"zip">>, "Failed to extract ZIP archive")

\* The kind a server classifies the file as, before any reader is called.
Classify(v, f) ==
    CASE v = "server" -> detectArchiveType(f.buf)
      [] v = "memory" -> ChooseExtractor(f.buf, f.name)
      [] v = "legacy" -> IF ExtName(f.name) = ".cbr" THEN "rar" ELSE "zip"

ListArchive(v, f) ==
    CASE v = "server" -> getArchiveFileList(f)
      [] v = "memory" -> extractImagesFromArchive(f)
      [] v = "legacy" -> getArchiveFileListLegacy(f)

\* multer's fileFilter, the same in the three servers.
fileFilter(f) == ExtName(f.name) \in {".cbr", ".cbz"}

Variants == {"server", "legacy", "memory"}

NoListing == [status |-> "none"]

NoResponse == [status |-> 0]

NoRequest == [route |-> "none"]

NoUpload == [name |-> <<>>]

\* The uploads directory is empty and no upload was answered.
StoreIdle ==
    /\ disk = {}
    /\ upRes = NoResponse

NoAnswer == [kind |-> "none"]

\* No preview is cached, queued or running and no request was answered.
ServeIdle ==
    /\ previewCache = <<>>
    /\ queue = <<>>
    /\ flights = <<>>
    /\ lastRes = NoAnswer
    /\ deleted = {}
    /\ nUp = 0
    /\ nPrev = 0
    /\ nDel = 0

NoSize == [width |-> 0, height |-> 0]

NoPlacement == [width |-> 0]

\* No image is being placed.
PlaceIdle ==
    /\ imgSize = NoSize
    /\ placed = NoPlacement

NoRange == [total |-> 0]

NoPages == [resolved |-> FALSE]

\* No range is being resolved.
RangeIdle ==
    /\ rangeIn = NoRange
    /\ pageSet = NoPages

\* No task was given to a queue modelled on its own.
QueueIdle ==
    /\ pqLog = <<>>
    /\ promise = <<>>

NoEntry == [name |-> <<>>]

NoBytes == [done |-> FALSE]

\* No entry is being extracted.
ResolveIdle ==
    /\ want = NoEntry
    /\ got = NoBytes

\* No page list is being sorted.
SortIdle ==
    /\ names = <<>>
    /\ sorted = <<>>
    /\ passes = 0

\* No conversion is being handled.
ConvertIdle ==
    /\ fileStore = <<>>
    /\ req = NoRequest
    /\ pc = "idle"
    /\ jobIdx = 0
    /\ pageIdx = 0
    /\ pdfDoc = <<>>
    /\ results = <<>>
    /\ res = NoResponse
    /\ log = <<>>

(***************************************************************************)
(* Ingestion: one uploaded file is filtered, classified and listed.        *)
(***************************************************************************)
\* POST /api/upload, for one file: the metadata put in the registry.
UploadMetadata(v, id, f) ==
    LET l == ListArchive(v, f)
    IN  [id |-> id, originalName |-> f.name, file |-> f, type |-> l.type,
         totalPages |-> Len(l.imageFiles), pages |-> l.imageFiles]

InitIngest ==
    /\ variant \in Variants
    /\ upFile \in {f \in UploadedFiles : ValidFile(f)}
    /\ listing = NoListing
    /\ StoreIdle
    /\ ConvertIdle
    /\ SortIdle
    /\ ServeIdle
    /\ PlaceIdle
    /\ RangeIdle
    /\ QueueIdle
    /\ ResolveIdle

\* The id the upload is stored under (a fresh uuid).
UploadId == "f1"

UploadResponse(status, success, files, totalPages, error) ==
    [status |-> status, success |-> success, files |-> files,
     totalPages |-> totalPages, error |-> error]

\* The upload is refused by the file filter before it is stored.
RejectUpload ==
    /\ listing = NoListing
    /\ ~fileFilter(upFile)
    /\ listing' = [status |-> "rejected"]
    /\ upRes' = UploadResponse(500, FALSE, <<>>, 0, "Only CBR and CBZ files are allowed")
    /\ UNCHANGED <<variant, upFile, disk, fileStore>>
    /\ UNCHANGED ingestFrame

\* The mutant of registerUpload: a file without images is registered too.
registerUploadAlways(v, store, id, f) ==
    [x \in DOMAIN store \cup {id} |->
        IF x = id THEN UploadMetadata(v, id, f) ELSE store[x]]

\* registry, upload: the registry after the file stored under id was listed.
registerUpload(v, store, id, f) ==
    IF Len(ListArchive(v, f).imageFiles) = 0 THEN store
    ELSE [x \in DOMAIN store \cup {id} |->
            IF x = id THEN UploadMetadata(v, id, f) ELSE store[x]]

\* registry, upload: the uploads directory after the file was listed.
keepUpload(v, files, id, f) ==
    IF Len(ListArchive(v, f).imageFiles) = 0 THEN files \ {id} ELSE files \cup {id}

\* registry, upload: the files the response names.
uploadResults(v, id, f) ==
    LET l == ListArchive(v, f)
    IN  IF Len(l.imageFiles) = 0 THEN <<>>
        ELSE << [id |-> id, name |-> f.name, totalPages |-> Len(l.imageFiles)] >>

\* memory, POST /api/get-page-count
getPageCount(f) ==
    LET l == extractImagesFromArchive(f)
    IN  IF l.error # "" THEN UploadResponse(500, FALSE, <<>>, 0, l.error)
        ELSE UploadResponse(200, TRUE, <<>>, Len(l.imageFiles), "")

\* The file is classified and listed; the registry servers register it when
\* it has pages and remove it when it has none.
ListUpload ==
    /\ listing = NoListing
    /\ fileFilter(upFile)
    /\ listing' = [status |-> "listed", detected |-> Classify(variant, upFile),
                   result |-> ListArchive(variant, upFile)]
    /\ IF variant = "memory"
       THEN /\ upRes' = getPageCount(upFile)
            /\ UNCHANGED <<disk, fileStore>>
       ELSE /\ fileStore' = registerUpload(variant, fileStore, UploadId, upFile)
            /\ disk' = keepUpload(variant, disk, UploadId, upFile)
            /\ upRes' = UploadResponse(200, TRUE, uploadResults(variant, UploadId, upFile),
                                      0, "")
    /\ UNCHANGED <<variant, upFile>>
    /\ UNCHANGED ingestFrame

NextIngest == RejectUpload \/ ListUpload

SpecIngest == InitIngest /\ [][NextIngest]_vars

(***************************************************************************)
(* Page order.  A listing collects the image names of an archive and sorts *)
(* them with naturalSort; sorting the page list again is what a second     *)
(* listing of the same names does.                                         *)
(***************************************************************************)
\* Entry names that differ by a digit run, by letter case, by a leading zero,
\* by a directory, and names that begin with a digit.
NameP1 == <<"p", "1", ".jpg">>

NameP2 == <<"p", "2", ".jpg">>

NameP10 == <<"p", "1", "0", ".jpg">>

NameP01 == <<"p", "0", "1", ".jpg">>

SortableNames ==
    { NameP1, NameP2, NameP10, NameP01, NameA, NameB, <<"A", ".jpg">>, <<"B", ".JPG">>,
      NameDirB, <<"2", ".jpg">>, <<"1", "0", ".jpg">>, <<"1", "a", ".jpg">> }

InitSort ==
    /\ variant \in Variants
    /\ upFile = NoUpload
    /\ StoreIdle
    /\ listing = NoListing
    /\ ConvertIdle
    /\ names \in SeqsUpToLen(SortableNames, MaxNames)
    /\ sorted = <<>>
    /\ passes = 0
    /\ ServeIdle
    /\ PlaceIdle
    /\ RangeIdle
    /\ QueueIdle
    /\ ResolveIdle

\* imageFiles.sort(naturalSort) on the names collected.
SortListing ==
    /\ passes = 0
    /\ sorted' = SortNames(variant, names)
    /\ passes' = 1
    /\ UNCHANGED <<variant, upFile, listing, names>>
    /\ UNCHANGED convertVars
    /\ UNCHANGED sortFrame

\* imageFiles.sort(naturalSort) on a page list that was sorted before.
SortAgain ==
    /\ passes = 1
    /\ sorted' = SortNames(variant, sorted)
    /\ passes' = 2
    /\ UNCHANGED <<variant, upFile, listing, names>>
    /\ UNCHANGED convertVars
    /\ UNCHANGED sortFrame

NextSort == SortListing \/ SortAgain

SpecSort == InitSort /\ [][NextSort]_vars

(***************************************************************************)
(* Conversion.  The registry servers convert jobs that name ingested files *)
(* (POST /api/convert with {mode, globalSettings, jobs}); the memory       *)
(* server converts the files uploaded with the request (POST /api/convert  *)
(* with a page range, POST /api/batch-convert).                            *)
(***************************************************************************)
ZipBytes == ZIP_SIGNATURE \o Pad(1)

RarBytes == RAR_SIGNATURE \o Pad(1)

Archive(name, buf, kind, entries) ==
    [name |-> name, buf |-> buf, kind |-> kind, entries |-> entries]

\* The archives of the conversion requests: a ZIP of three pages and a text
\* file stored out of page order, a RAR of two pages, a ZIP named .CBR, a RAR
\* with an encrypted page, a file that is no archive, an archive without
\* images, and a ZIP whose two pages share a basename.
ArcABC ==
    Archive(<<"v", ".cbz">>, ZipBytes, "zip",
            << Entry(NameC, FALSE, FALSE), Entry(NameTxt, FALSE, FALSE),
               Entry(NameA, FALSE, FALSE), Entry(NameB, FALSE, FALSE) >>)

ArcRar ==
    Archive(<<"w", ".cbr">>, RarBytes, "rar",
            << Entry(NameX, FALSE, FALSE), Entry(NameDirB, FALSE, FALSE) >>)

ArcZipCbr ==
    Archive(<<"z", ".CBR">>, ZipBytes, "zip", << Entry(NameA, FALSE, FALSE) >>)

ArcEnc ==
    Archive(<<"s", ".cbr">>, RarBytes, "rar",
            << Entry(NameA, FALSE, FALSE), Entry(NameC, FALSE, TRUE) >>)

ArcBad == Archive(<<"k", ".cbz">>, Pad(2), "bad", <<>>)

ArcNoImg ==
    Archive(<<"t", ".cbz">>, ZipBytes, "zip", << Entry(NameTxt, FALSE, FALSE) >>)

ArcDup ==
    Archive(<<"u", ".cbz">>, ZipBytes, "zip",
            << Entry(NameB, FALSE, FALSE), Entry(NameDirB, FALSE, FALSE) >>)

\* POST /api/upload: the registry after the files of `uploaded` (id -> file) were
\* uploaded; a file that lists no image is removed and not registered.
UploadAll(v, uploaded) ==
    LET kept == { id \in DOMAIN uploaded :
                    fileFilter(uploaded[id]) /\ Len(ListArchive(v, uploaded[id]).imageFiles) > 0 }
    IN  [id \in kept |-> UploadMetadata(v, id, uploaded[id])]

Disks ==
    { d \in UNION { [ids -> {ArcABC, ArcRar, ArcZipCbr, ArcEnc}] :
                      ids \in {{"f1"}, {"f1", "f2"}} } :
        /\ d["f1"] \in {ArcABC, ArcRar}
        /\ "f2" \in DOMAIN d => d["f2"] \in {ArcZipCbr, ArcEnc} }

\* A job's page selection: the "all pages" sentinel (pages: null) or a list.
AllPages == [all |-> TRUE, list |-> <<>>]

PageList(list) == [all |-> FALSE, list |-> list]

RECURSIVE SortAsc(_)
\* Array.from(set).sort((a, b) => a - b)
SortAsc(S) ==
    IF S = {} THEN <<>>
    ELSE LET m == CHOOSE x \in S : \A y \in S : x <= y
         IN  <<m>> \o SortAsc(S \ {m})

\* client: the job startConversion builds for one file of appState.files;
\* file.selectedPages is null (all pages) or a Set of page indices.
startConversionJob(fileId, selectedPages) ==
    [fileId |-> fileId,
     pages |-> IF selectedPages.isNull THEN AllPages
               ELSE PageList(SortAsc(selectedPages.set))]

\* What the editor and the range inputs leave in file.selectedPages.
Selections == { [isNull |-> TRUE, set |-> {}], [isNull |-> FALSE, set |-> {}],
                [isNull |-> FALSE, set |-> {0, 2}] }

\* Page lists only a caller other than the client sends: out of order,
\* repeated, out of range.
RawLists == { <<2, 0>>, <<0, 0>>, <<3>> }

JobIds == {"f1", "f2", "fx"}

Jobs ==
    { startConversionJob(id, sel) : id \in JobIds, sel \in Selections }
    \cup { [fileId |-> id, pages |-> PageList(l)] : id \in JobIds, l \in RawLists }

SeqsUpTo(S, n) == UNION { [1..k -> S] : k \in 0..n }

Modes == {"single", "batch", "combine"}

SettingsChoices == { [bgColor |-> "black", quality |-> "100"],
                     [bgColor |-> "", quality |-> ""] }

RawNumbers == {"", "-1", "0", "1", "2", "5"}

Request(route, mode, settings, jobs, files, pageStart, pageEnd) ==
    [route |-> route, mode |-> mode, settings |-> settings, jobs |-> jobs,
     files |-> files, pageStart |-> pageStart, pageEnd |-> pageEnd]

RegistryRequests ==
    { Request("convert", m, st, js, <<>>, "", "") :
        m \in Modes, st \in SettingsChoices, js \in SeqsUpTo(Jobs, MaxJobs) }

MemoryFiles == {ArcABC, ArcRar, ArcZipCbr, ArcEnc, ArcBad, ArcNoImg, ArcDup}

\* The files of the batch uploads.
BatchFiles == {ArcRar, ArcZipCbr, ArcBad}

MemoryRequests ==
    { Request("convert", "single", st, <<>>, <<f>>, ps, pe) :
        st \in SettingsChoices, f \in MemoryFiles, ps \in RawNumbers, pe \in RawNumbers }
    \cup { Request("batch-convert", "batch", st, <<>>, fs, "", "") :
             st \in SettingsChoices, fs \in SeqsUpTo(BatchFiles, MaxFiles) }

\* parseInt(raw): [nan, val]
ParseIntRaw(raw) ==
    CASE raw = "-1" -> [nan |-> FALSE, val |-> -1]
      [] raw = "0" -> [nan |-> FALSE, val |-> 0]
      [] raw = "1" -> [nan |-> FALSE, val |-> 1]
      [] raw = "01" -> [nan |-> FALSE, val |-> 1]
      [] raw = "2" -> [nan |-> FALSE, val |-> 2]
      [] raw = "5" -> [nan |-> FALSE, val |-> 5]
      [] raw = "75" -> [nan |-> FALSE, val |-> 75]
      [] raw = "100" -> [nan |-> FALSE, val |-> 100]
      [] OTHER -> [nan |-> TRUE, val |-> 0]

\* parseInt(raw) || dflt
ParseIntOr(raw, dflt) ==
    LET p == ParseIntRaw(raw) IN IF p.nan \/ p.val = 0 THEN dflt ELSE p.val

\* const quality = parseInt(settings.quality) || 80   (memory: || 75)
QualityOf(v, settings) == ParseIntOr(settings.quality, IF v = "memory" THEN 75 ELSE 80)

\* bgColor === 'black' ? rgb(0, 0, 0) : rgb(1, 1, 1)
BackgroundOf(settings) == IF settings.bgColor = "black" THEN "black" ELSE "white"

\* originalName.replace(/\.(cbr|cbz)$/i, '.pdf')
PdfName(name) ==
    IF ExtName(name) \in {".cbr", ".cbz"}
    THEN SubSeq(name, 1, Len(name) - 1) \o <<".pdf">>
    ELSE name

\* The format sharp reports for an entry's bytes.
SourceFormat(name) ==
    CASE ExtName(name) = ".png" -> "png"
      [] ExtName(name) = ".gif" -> "gif"
      [] ExtName(name) = ".webp" -> "webp"
      [] OTHER -> "jpeg"

(***************************************************************************)
(* The conversion handlers, step by step.                                  *)
(***************************************************************************)
IsMemory == variant = "memory"

IsCombine == ~IsMemory /\ req.mode = "combine"

NJobs == IF IsMemory THEN Len(req.files) ELSE Len(req.jobs)

\* registry: fileStore.get(job.fileId) of job j
JobKnown(j) == req.jobs[j].fileId \in DOMAIN fileStore

FileData(j) == fileStore[req.jobs[j].fileId]

\* memory: extractImagesFromArchive of the j-th uploaded file
MemoryListing(j) == extractImagesFromArchive(req.files[j])

\* The archive behind job j.
JobFile(j) == IF IsMemory THEN req.files[j] ELSE FileData(j).file

\* The job's page names, in page order.
JobPages(j) == IF IsMemory THEN MemoryListing(j).imageFiles ELSE FileData(j).pages

\* registry: job.pages !== null ? job.pages : fileData.pages.map((_, i) => i)
pagesToProcess(job, fileData) ==
    IF job.pages.all THEN [i \in 1..Len(fileData.pages) |-> i - 1] ELSE job.pages.list

\* memory, POST /api/convert: the clamped 1-indexed range [start, end]
PageRange(pageStartRaw, pageEndRaw, n) ==
    LET start0 == ParseIntOr(pageStartRaw, 1)
        end0 == ParseIntRaw(pageEndRaw)
        end1 == IF end0.nan \/ end0.val = 0 \/ end0.val > n THEN n ELSE end0.val
        start == Max(1, Min(start0, n))
    IN  [start |-> start, end |-> Max(start, Min(end1, n))]

\* memory: imageFiles.slice(pageStart - 1, pageEnd), as 0-based indices
requiredImageFiles(route, pageStartRaw, pageEndRaw, n) ==
    IF route = "convert"
    THEN LET r == PageRange(pageStartRaw, pageEndRaw, n)
         IN  [i \in 1..(Min(r.end, n) - r.start + 1) |-> r.start + i - 2]
    ELSE [i \in 1..n |-> i - 1]

\* The 0-based page indices job j converts, in the order it converts them.
Todo(j) ==
    IF IsMemory
    THEN requiredImageFiles(req.route, req.pageStart, req.pageEnd, Len(JobPages(j)))
    ELSE pagesToProcess(req.jobs[j], FileData(j))

InRange(j, idx) == idx >= 0 /\ idx < Len(JobPages(j))

\* The entry whose bytes a page name resolves to.  The memory server keys a
\* ZIP's image data by entry.name, so the last entry of a basename wins.
SourceEntry(v, f, via, name) ==
    IF v = "memory" /\ via = "zip"
    THEN LET kept == SelectSeq(f.entries,
                        LAMBDA e : ~e.dir /\ IsImageName(ZipEntryBaseName(e))
                                   /\ ZipEntryBaseName(e) = name)
         IN  kept[Len(kept)]
    ELSE CHOOSE e \in {f.entries[i] : i \in 1..Len(f.entries)} : e.name = name

JobType(j) == IF IsMemory THEN MemoryListing(j).type ELSE FileData(j).type

\* What may happen to one page: "ok", or the step that fails - the extraction
\* of its bytes, sharp's re-encoding, pdf-lib's embedding.
Outcomes == {"ok", "extract", "reencode", "embed"}

PageOutcomes(v, type, entry) ==
    IF type = "rar-encrypted" \/ entry.enc \/ entry.dir THEN {"extract"}
    ELSE IF v = "memory" /\ type = "zip" THEN Outcomes \ {"extract"}
    ELSE Outcomes

\* The format a page is re-encoded to.
reencodeFormat(v, combine, name, quality) ==
    CASE v = "memory" -> IF ExtName(name) = ".png" THEN "png" ELSE "jpeg"
      [] combine -> "jpeg"
      [] OTHER -> IF SourceFormat(name) = "png" /\ quality = 100 THEN "png" ELSE "jpeg"

PdfPage(job, idx, src, format, bg) ==
    [job |-> job, idx |-> idx, src |-> src, format |-> format, bg |-> bg, image |-> TRUE]

\* A page that got its background rectangle and no image.
BackgroundOnly(page) == [page EXCEPT !.image = FALSE]

\* pdfDoc.addPage([A4_WIDTH, A4_HEIGHT])
addPage(doc, page) == Append(doc, page)

\* A page loop that puts each new page first.
processJobPageFirst(doc, page, outcome) ==
    IF outcome = "ok" THEN <<page>> \o doc ELSE doc

\* registry, processJob: one turn of the page loop
processJobPage(doc, page, outcome) ==
    IF outcome = "ok" THEN addPage(doc, page) ELSE doc

\* A combine loop that puts each new page first.
combinePageFirst(doc, page, outcome) ==
    IF outcome = "ok" THEN <<page>> \o doc ELSE doc

\* registry, combine branch: one turn of the page loop
combinePage(doc, page, outcome) ==
    IF outcome = "ok" THEN addPage(doc, page) ELSE doc

\* memory, createPDFFromImages: one image; the page is added and painted
\* before the image is embedded.
createPDFPage(doc, page, outcome) ==
    CASE outcome = "ok" -> addPage(doc, page)
      [] outcome = "embed" -> addPage(doc, BackgroundOnly(page))
      [] OTHER -> doc

\* A collection that puts each new result first.
unshiftResult(rs, r) == <<r>> \o rs

\* results.push(...) / pdfBuffers.push(...)
pushResult(rs, r) == Append(rs, r)

Response(status, ctype, filename, pdf, members, error) ==
    [status |-> status, ctype |-> ctype, filename |-> filename, pdf |-> pdf,
     members |-> members, error |-> error]

ErrorResponse(status, error) == Response(status, "application/json", <<>>, <<>>, <<>>, error)

ZipMembers(rs) == [i \in 1..Len(rs) |-> [name |-> rs[i].filename, data |-> rs[i].data,
                                         job |-> rs[i].job]]

\* A packaging that answers a ZIP whatever the number of results.
PackageAlwaysZip(v, rs) ==
    Response(200, "application/zip", <<"converted_files", ".zip">>, <<>>, ZipMembers(rs), "")

\* The response once every job was handled (not combine).
Package(v, rs) ==
    IF v = "memory" /\ Len(rs) = 0
    THEN ErrorResponse(500, "No files could be converted")
    ELSE IF Len(rs) = 1
    THEN Response(200, "application/pdf", rs[1].filename, rs[1].data, <<>>, "")
    ELSE Response(200, "application/zip",
                  IF v = "memory" THEN <<"converted-pdfs", ".zip">>
                  ELSE <<"converted_files", ".zip">>,
                  <<>>, ZipMembers(rs), "")

\* The response of the combine branch.
CombinedResponse(doc) ==
    Response(200, "application/pdf", <<"Combined_Output", ".pdf">>, doc, <<>>, "")

InitConvert ==
    /\ variant \in Variants
    /\ upFile = NoUpload
    /\ listing = NoListing
    /\ StoreIdle
    /\ fileStore \in IF IsMemory THEN {<<>>} ELSE {UploadAll(variant, d) : d \in Disks}
    /\ req \in IF IsMemory THEN MemoryRequests ELSE RegistryRequests
    /\ pc = "received"
    /\ jobIdx = 0
    /\ pageIdx = 0
    /\ pdfDoc = <<>>
    /\ results = <<>>
    /\ res = NoResponse
    /\ log = <<>>
    /\ SortIdle
    /\ ServeIdle
    /\ PlaceIdle
    /\ RangeIdle
    /\ QueueIdle
    /\ ResolveIdle

\* if (!jobs || jobs.length === 0) throw ...; if (!req.files ...) return 400
RejectEmpty ==
    /\ pc = "received"
    /\ NJobs = 0
    /\ res' = IF IsMemory THEN ErrorResponse(400, "No files uploaded")
              ELSE ErrorResponse(500, "No jobs defined")
    /\ pc' = "done"
    /\ UNCHANGED convertFrame
    /\ UNCHANGED <<variant, upFile, listing, fileStore, req, jobIdx, pageIdx, pdfDoc,
                   results, log>>

Accept ==
    /\ pc = "received"
    /\ NJobs > 0
    /\ pc' = "job"
    /\ jobIdx' = 1
    /\ UNCHANGED convertFrame
    /\ UNCHANGED <<variant, upFile, listing, fileStore, req, pageIdx, pdfDoc, results,
                   res, log>>

\* The job cannot start: its file id is not registered, or the uploaded file
\* cannot be listed.
JobFails(j) == IF IsMemory THEN MemoryListing(j).error # "" ELSE ~JobKnown(j)

\* The failure is caught for this job alone: the combine branch's continue,
\* the try/catch around each file of batch-convert.
FailureIsLocal == IsCombine \/ (IsMemory /\ req.route = "batch-convert")

\* processJob throws (file not found), or the single conversion's listing
\* throws: the handler's catch answers 500.
JobThrows ==
    /\ pc = "job"
    /\ jobIdx <= NJobs
    /\ JobFails(jobIdx)
    /\ ~FailureIsLocal
    /\ res' = ErrorResponse(500, IF IsMemory THEN MemoryListing(jobIdx).error
                                 ELSE "File not found")
    /\ pc' = "done"
    /\ UNCHANGED convertFrame
    /\ UNCHANGED <<variant, upFile, listing, fileStore, req, jobIdx, pageIdx, pdfDoc,
                   results, log>>

JobSkipped ==
    /\ pc = "job"
    /\ jobIdx <= NJobs
    /\ JobFails(jobIdx)
    /\ FailureIsLocal
    /\ jobIdx' = jobIdx + 1
    /\ UNCHANGED convertFrame
    /\ UNCHANGED <<variant, upFile, listing, fileStore, req, pc, pageIdx, pdfDoc,
                   results, res, log>>

\* A new document per job, except in combine mode.
JobBegins ==
    /\ pc = "job"
    /\ jobIdx <= NJobs
    /\ ~JobFails(jobIdx)
    /\ pdfDoc' = IF IsCombine THEN pdfDoc ELSE <<>>
    /\ pageIdx' = 1
    /\ pc' = "page"
    /\ UNCHANGED convertFrame
    /\ UNCHANGED <<variant, upFile, listing, fileStore, req, jobIdx, results, res, log>>

\* The page loop's turn for an index that names no page: continue.
PageMissing ==
    /\ pc = "page"
    /\ pageIdx <= Len(Todo(jobIdx))
    /\ ~InRange(jobIdx, Todo(jobIdx)[pageIdx])
    /\ log' = Append(log, [job |-> jobIdx, pos |-> pageIdx, ok |-> FALSE])
    /\ pageIdx' = pageIdx + 1
    /\ UNCHANGED convertFrame
    /\ UNCHANGED <<variant, upFile, listing, fileStore, req, pc, jobIdx, pdfDoc,
                   results, res>>

\* The document after the loop's turn for page index idx of job j.
PageTurn(v, combine, doc, j, idx, outcome) ==
    LET name == JobPages(j)[idx + 1]
        entry == SourceEntry(v, JobFile(j), JobType(j), name)
        page == PdfPage(j, idx, entry.name,
                        reencodeFormat(v, combine, name, QualityOf(v, req.settings)),
                        BackgroundOf(req.settings))
    IN  CASE v = "memory" -> createPDFPage(doc, page, outcome)
          [] combine -> combinePage(doc, page, outcome)
          [] OTHER -> processJobPage(doc, page, outcome)

PageStep ==
    /\ pc = "page"
    /\ pageIdx <= Len(Todo(jobIdx))
    /\ InRange(jobIdx, Todo(jobIdx)[pageIdx])
    /\ LET idx == Todo(jobIdx)[pageIdx]
           entry == SourceEntry(variant, JobFile(jobIdx), JobType(jobIdx),
                                JobPages(jobIdx)[idx + 1])
       IN  \E outcome \in PageOutcomes(variant, JobType(jobIdx), entry) :
              /\ pdfDoc' = PageTurn(variant, IsCombine, pdfDoc, jobIdx, idx, outcome)
              /\ log' = Append(log, [job |-> jobIdx, pos |-> pageIdx,
                                     ok |-> outcome = "ok"])
    /\ pageIdx' = pageIdx + 1
    /\ UNCHANGED convertFrame
    /\ UNCHANGED <<variant, upFile, listing, fileStore, req, pc, jobIdx, results, res>>

\* pdfDoc.save(): the job's PDF, named after its archive.
JobResult(j, doc) ==
    [filename |-> PdfName(JobFile(j).name), data |-> doc, job |-> j]

JobEnds ==
    /\ pc = "page"
    /\ pageIdx > Len(Todo(jobIdx))
    /\ results' = IF IsCombine THEN results
                  ELSE pushResult(results, JobResult(jobIdx, pdfDoc))
    /\ jobIdx' = jobIdx + 1
    /\ pc' = "job"
    /\ UNCHANGED convertFrame
    /\ UNCHANGED <<variant, upFile, listing, fileStore, req, pageIdx, pdfDoc, res, log>>

Respond ==
    /\ pc = "job"
    /\ jobIdx > NJobs
    /\ res' = IF IsCombine THEN CombinedResponse(pdfDoc) ELSE Package(variant, results)
    /\ pc' = "done"
    /\ UNCHANGED convertFrame
    /\ UNCHANGED <<variant, upFile, listing, fileStore, req, jobIdx, pageIdx, pdfDoc,
                   results, log>>

NextConvert ==
    \/ RejectEmpty
    \/ Accept
    \/ JobThrows
    \/ JobSkipped
    \/ JobBegins
    \/ PageMissing
    \/ PageStep
    \/ JobEnds
    \/ Respond

SpecConvert == InitConvert /\ [][NextConvert]_vars

(***************************************************************************)
(* Serving the registry: uploads, GET /api/files/:id, previews and         *)
(* deletes, interleaved.  A handler runs until it awaits; what it does     *)
(* after the await is a later step.  A preview is admitted to the          *)
(* extraction queue (the older server extracts at once), reads its page    *)
(* from the stored file, and re-encodes it; a delete unlinks the stored    *)
(* file and then forgets the handle and its cached previews.               *)
(***************************************************************************)
\* The files uploaded to the servers that serve previews.
ServeFiles == {ArcABC, ArcZipCbr, ArcNoImg}

\* The uuids multer gives the uploads, in order.
UploadIds == <<"f1", "f2", "f3", "f4">>

\* An id no upload was given.
UnknownId == "fx"

\* The :pageIndex texts of the requests.
RawIndexes == {"0", "1", "-1", "x"}

\* The requests for a preview: any known id with any index text, the first
\* id with an index written with a leading zero, and the unknown id.
PreviewTargets ==
    ({UploadIds[i] : i \in 1..MaxUploads} \X RawIndexes)
        \cup {<<UploadIds[1], "01">>, <<UnknownId, "0">>}

DeleteTargets == {UploadIds[i] : i \in 1..MaxUploads} \cup {UnknownId}

\* const extractionQueue = new PQueue(2)
QueueConcurrency == 2

\* const cacheKey = `${id}-${pageIndex}`
CacheKey(id, raw) == [id |-> id, raw |-> raw]

\* previewCache.has(cacheKey)
cacheHas(cache, key) == \E i \in 1..Len(cache) : cache[i] = key

\* if (previewCache.size >= CACHE_MAX_SIZE) the first key is deleted
cacheEvicted(cache) == IF Len(cache) >= CacheCapacity THEN <<cache[1]>> ELSE <<>>

\* The mutant of cacheInsert: the key inserted last is the one evicted.
cacheInsertEvictLast(cache, key) ==
    LET c1 == IF Len(cache) >= CacheCapacity
              THEN SubSeq(cache, 1, Len(cache) - 1) ELSE cache
    IN  IF cacheHas(c1, key) THEN c1 ELSE Append(c1, key)

\* The size check, then previewCache.set(cacheKey, buffer): a Map keeps a key
\* it already holds at its place.
cacheInsert(cache, key) ==
    LET c1 == IF Len(cache) >= CacheCapacity THEN Tail(cache) ELSE cache
    IN  IF cacheHas(c1, key) THEN c1 ELSE Append(c1, key)

\* The mutant of cachePurge: the whole cache is cleared.
cachePurgeAll(cache, id) == SelectSeq(cache, LAMBDA k : FALSE)

\* for (const key of previewCache.keys()) if (key.startsWith(`${id}-`)) delete
cachePurge(cache, id) == SelectSeq(cache, LAMBDA k : k.id # id)

\* The previews the queue counts as running.
Running(fl) ==
    {n \in DOMAIN fl : fl[n].kind = "preview" /\ fl[n].at \in {"running", "read"}}

\* The mutant of pqNext: the head of the queue starts whatever is running.
pqNextUnbounded(fl, q) ==
    IF q = <<>>
    THEN [flights |-> fl, queue |-> q]
    ELSE [flights |-> [fl EXCEPT ![Head(q)].at = "running"], queue |-> Tail(q)]

\* The mutant of pqNext: the task added last starts first.
pqNextLifo(fl, q) ==
    IF Cardinality({n \in DOMAIN fl : fl[n].kind = "preview"
                       /\ fl[n].at \in {"running", "read"}}) >= QueueConcurrency
       \/ q = <<>>
    THEN [flights |-> fl, queue |-> q]
    ELSE [flights |-> [fl EXCEPT ![q[Len(q)]].at = "running"],
          queue |-> SubSeq(q, 1, Len(q) - 1)]

\* PQueue.next(): start the head of the queue when a slot is free.
pqNext(fl, q) ==
    IF Cardinality(Running(fl)) >= QueueConcurrency \/ q = <<>>
    THEN [flights |-> fl, queue |-> q]
    ELSE [flights |-> [fl EXCEPT ![Head(q)].at = "running"], queue |-> Tail(q)]

\* The slot a newly suspended handler takes.
FreeSlot(fl) == CHOOSE n \in 1..(Cardinality(DOMAIN fl) + 1) :
                    /\ n \notin DOMAIN fl
                    /\ \A m \in 1..(n - 1) : m \in DOMAIN fl

\* The suspended handlers without handler n.
Without(fl, n) == [m \in DOMAIN fl \ {n} |-> fl[m]]

\* The suspended handlers with handler n added.
With(fl, n, f) == [m \in DOMAIN fl \cup {n} |-> IF m = n THEN f ELSE fl[m]]

\* The registry without id.
Forget(store, id) == [x \in DOMAIN store \ {id} |-> store[x]]

\* A response of files, preview or delete: known says whether the id was
\* registered when the request arrived, late whether a delete of the id had
\* been answered by then, hit whether the cache served it, evicted which key
\* its insertion pushed out, pages the page list of the handle it found.
Answer(kind, id, raw, status, known, late, hit, evicted, pages) ==
    [kind |-> kind, id |-> id, raw |-> raw, status |-> status, known |-> known,
     late |-> late, hit |-> hit, evicted |-> evicted, pages |-> pages]

\* The mutant of previewInvalid: the older server's test in both servers.
previewInvalidNoNaN(v, p, n) == ~p.nan /\ (p.val < 0 \/ p.val >= n)

\* if (isNaN(index) || index < 0 || index >= fileData.pages.length); the
\* older server has no isNaN test, and NaN compares false.
previewInvalid(v, p, n) ==
    IF v = "server" THEN p.nan \/ p.val < 0 \/ p.val >= n
    ELSE ~p.nan /\ (p.val < 0 \/ p.val >= n)

\* fileData.pages[index]: undefined (the empty name) for NaN
pageAt(pages, p) == IF p.nan THEN <<>> ELSE pages[p.val + 1]

InitServe ==
    /\ variant \in {"server", "legacy"}
    /\ upFile = NoUpload
    /\ listing = NoListing
    /\ StoreIdle
    /\ ConvertIdle
    /\ SortIdle
    /\ ServeIdle
    /\ PlaceIdle
    /\ RangeIdle
    /\ QueueIdle
    /\ ResolveIdle

\* POST /api/upload with one file.
Upload ==
    /\ nUp < MaxUploads
    /\ \E f \in ServeFiles :
        LET id == UploadIds[nUp + 1] IN
        /\ upFile' = f
        /\ listing' = [status |-> "listed", detected |-> Classify(variant, f),
                       result |-> ListArchive(variant, f)]
        /\ fileStore' = registerUpload(variant, fileStore, id, f)
        /\ disk' = keepUpload(variant, disk, id, f)
        /\ upRes' = UploadResponse(200, TRUE, uploadResults(variant, id, f), 0, "")
    /\ nUp' = nUp + 1
    /\ UNCHANGED <<variant, previewCache, queue, flights, lastRes, deleted, nPrev, nDel>>
    /\ UNCHANGED serveFrame

\* GET /api/files/:id
GetFile ==
    /\ \E id \in DeleteTargets :
        lastRes' = IF id \in DOMAIN fileStore
                   THEN Answer("files", id, "", 200, TRUE, id \in deleted, FALSE, <<>>,
                               fileStore[id].pages)
                   ELSE Answer("files", id, "", 404, FALSE, id \in deleted, FALSE, <<>>, <<>>)
    /\ UNCHANGED <<variant, upFile, listing, fileStore, disk, upRes, previewCache,
                   queue, flights, deleted, nUp, nPrev, nDel>>
    /\ UNCHANGED serveFrame

\* GET /api/preview/:id/:pageIndex, up to the first await: the request is
\* answered at once (404, 400, cache hit) or its extraction is admitted.
PreviewArrives ==
    /\ nPrev + nDel < MaxRequests
    /\ \E t \in PreviewTargets :
        LET id == t[1]
            raw == t[2]
            late == id \in deleted
            p == ParseIntRaw(raw)
            key == CacheKey(id, raw)
            n == FreeSlot(flights)
        IN  IF id \notin DOMAIN fileStore
            THEN /\ lastRes' = Answer("preview", id, raw, 404, FALSE, late, FALSE, <<>>, <<>>)
                 /\ UNCHANGED <<flights, queue>>
            ELSE IF previewInvalid(variant, p, Len(fileStore[id].pages))
            THEN /\ lastRes' = Answer("preview", id, raw, 400, TRUE, late, FALSE, <<>>,
                                    fileStore[id].pages)
                 /\ UNCHANGED <<flights, queue>>
            ELSE IF variant = "server" /\ cacheHas(previewCache, key)
            THEN /\ lastRes' = Answer("preview", id, raw, 200, TRUE, late, TRUE, <<>>,
                                    fileStore[id].pages)
                 /\ UNCHANGED <<flights, queue>>
            ELSE LET f == [kind |-> "preview", id |-> id, raw |-> raw, late |-> late,
                           at |-> IF variant = "server" THEN "queued" ELSE "running",
                           pages |-> fileStore[id].pages,
                           page |-> pageAt(fileStore[id].pages, p),
                           type |-> fileStore[id].type, timedOut |-> FALSE]
                     started == IF variant = "server"
                                THEN pqNext(With(flights, n, f), Append(queue, n))
                                ELSE [flights |-> With(flights, n, f), queue |-> queue]
                 IN  /\ flights' = started.flights
                     /\ queue' = started.queue
                     /\ UNCHANGED lastRes
    /\ nPrev' = nPrev + 1
    /\ UNCHANGED <<variant, upFile, listing, fileStore, disk, upRes, previewCache,
                   deleted, nUp, nDel>>
    /\ UNCHANGED serveFrame

\* The preview's failure: the queue frees its slot and starts the next one,
\* the handler answers 500 unless its timeout already did.
previewFails(n) ==
    LET f == flights[n]
        rest == IF variant = "server" THEN pqNext(Without(flights, n), queue)
                ELSE [flights |-> Without(flights, n), queue |-> queue]
    IN  /\ flights' = rest.flights
        /\ queue' = rest.queue
        /\ lastRes' = IF f.timedOut THEN lastRes
                      ELSE Answer("preview", f.id, f.raw, 500, TRUE, f.late, FALSE, <<>>,
                                  f.pages)
        /\ UNCHANGED previewCache

\* extractImageBuffer: the page is read from the stored file; it throws for
\* an encrypted archive, a missing file or a missing entry, and may fail.
ReadImage ==
    /\ \E n \in DOMAIN flights :
        /\ flights[n].kind = "preview"
        /\ flights[n].at = "running"
        /\ \/ /\ flights[n].id \in disk
              /\ flights[n].page # <<>>
              /\ flights[n].type # "rar-encrypted"
              /\ flights' = [flights EXCEPT ![n].at = "read"]
              /\ UNCHANGED <<queue, lastRes, previewCache>>
           \/ previewFails(n)
    /\ UNCHANGED <<variant, upFile, listing, fileStore, disk, upRes, deleted,
                   nUp, nPrev, nDel>>
    /\ UNCHANGED serveFrame

\* sharp validates and re-encodes the page; on success the handler caches
\* the preview (the current server) and sends it.
FinishPreview ==
    /\ \E n \in DOMAIN flights :
        /\ flights[n].kind = "preview"
        /\ flights[n].at = "read"
        /\ \/ LET f == flights[n]
                  key == CacheKey(f.id, f.raw)
                  rest == IF variant = "server" THEN pqNext(Without(flights, n), queue)
                          ELSE [flights |-> Without(flights, n), queue |-> queue]
              IN  /\ flights' = rest.flights
                  /\ queue' = rest.queue
                  /\ IF f.timedOut
                     THEN UNCHANGED <<previewCache, lastRes>>
                     ELSE /\ previewCache' = IF variant = "server"
                                             THEN cacheInsert(previewCache, key)
                                             ELSE previewCache
                          /\ lastRes' = Answer("preview", f.id, f.raw, 200, TRUE, f.late,
                                               FALSE,
                                               IF variant = "server"
                                               THEN cacheEvicted(previewCache) ELSE <<>>,
                                               f.pages)
           \/ previewFails(n)
    /\ UNCHANGED <<variant, upFile, listing, fileStore, disk, upRes, deleted,
                   nUp, nPrev, nDel>>
    /\ UNCHANGED serveFrame

\* setTimeout(() => reject(new Error('Preview generation timeout')),
\* PREVIEW_TIMEOUT): the handler answers 500; the extraction stays queued or
\* running and its result is dropped.
PreviewTimeout ==
    /\ variant = "server"
    /\ \E n \in DOMAIN flights :
        /\ flights[n].kind = "preview"
        /\ ~flights[n].timedOut
        /\ flights' = [flights EXCEPT ![n].timedOut = TRUE]
        /\ lastRes' = Answer("preview", flights[n].id, flights[n].raw, 500, TRUE,
                             flights[n].late, FALSE, <<>>, flights[n].pages)
    /\ UNCHANGED <<variant, upFile, listing, fileStore, disk, upRes, previewCache,
                   queue, deleted, nUp, nPrev, nDel>>
    /\ UNCHANGED serveFrame

\* DELETE /api/files/:id, up to the first await: an unknown id is answered
\* at once, a known one goes on to unlink the stored file.
DeleteArrives ==
    /\ nPrev + nDel < MaxRequests
    /\ \E id \in DeleteTargets :
        IF id \in DOMAIN fileStore
        THEN /\ flights' = With(flights, FreeSlot(flights),
                                [kind |-> "delete", id |-> id, raw |-> "",
                                 late |-> id \in deleted, at |-> "unlinking",
                                 pages |-> <<>>, page |-> <<>>, type |-> "", timedOut |-> FALSE])
             /\ UNCHANGED lastRes
        ELSE /\ lastRes' = Answer("delete", id, "", 200, FALSE, id \in deleted, FALSE,
                                  <<>>, <<>>)
             /\ UNCHANGED flights
    /\ nDel' = nDel + 1
    /\ UNCHANGED <<variant, upFile, listing, fileStore, disk, upRes, previewCache,
                   queue, deleted, nUp, nPrev>>
    /\ UNCHANGED serveFrame

\* await fs.remove(fileData.filePath)
DeleteUnlinks ==
    /\ \E n \in DOMAIN flights :
        /\ flights[n].kind = "delete"
        /\ flights[n].at = "unlinking"
        /\ disk' = disk \ {flights[n].id}
        /\ flights' = [flights EXCEPT ![n].at = "unlinked"]
    /\ UNCHANGED <<variant, upFile, listing, fileStore, upRes, previewCache, queue,
                   lastRes, deleted, nUp, nPrev, nDel>>
    /\ UNCHANGED serveFrame

\* fileStore.delete(id), the cached previews of id are cleared (the current
\* server), res.json({ success: true })
DeleteFinishes ==
    /\ \E n \in DOMAIN flights :
        /\ flights[n].kind = "delete"
        /\ flights[n].at = "unlinked"
        /\ fileStore' = Forget(fileStore, flights[n].id)
        /\ previewCache' = IF variant = "server"
                           THEN cachePurge(previewCache, flights[n].id)
                           ELSE previewCache
        /\ flights' = Without(flights, n)
        /\ deleted' = deleted \cup {flights[n].id}
        /\ lastRes' = Answer("delete", flights[n].id, "", 200, TRUE, flights[n].late,
                             FALSE, <<>>, <<>>)
    /\ UNCHANGED <<variant, upFile, listing, disk, upRes, queue, nUp, nPrev, nDel>>
    /\ UNCHANGED serveFrame

NextServe ==
    \/ Upload
    \/ GetFile
    \/ PreviewArrives
    \/ ReadImage
    \/ FinishPreview
    \/ PreviewTimeout
    \/ DeleteArrives
    \/ DeleteUnlinks
    \/ DeleteFinishes

SpecServe == InitServe /\ [][NextServe]_vars

(***************************************************************************)
(* Placing a page's image on the A4 canvas.  Lengths are exact fractions   *)
(* [n, d] of hundredths of a point, kept in lowest terms; an embedded      *)
(* image's width and height are whole points.                              *)
(***************************************************************************)
\* const A4_WIDTH = 595.28, in hundredths of a point
A4_WIDTH == 59528

\* const A4_HEIGHT = 841.89, in hundredths of a point
A4_HEIGHT == 84189

\* The widths and heights of the embedded images.
Dims == {100, 200, 400, 600, 800, 1600, 3200}

ImageSizes == [width : Dims, height : Dims]

RECURSIVE GCD(_, _)
GCD(a, b) == IF b = 0 THEN a ELSE GCD(b, a % b)

\* The fraction n/d in lowest terms, n >= 0 and d > 0.
Rat(n, d) == LET g == GCD(n, d) IN [n |-> n \div g, d |-> d \div g]

RatLe(a, b) == a.n * b.d <= b.n * a.d

RatEq(a, b) == a.n * b.d = b.n * a.d

RatAdd(a, b) == Rat(a.n * b.d + b.n * a.d, a.d * b.d)

\* (whole - a) / 2, for a whole number of hundredths
HalfRest(whole, a) == Rat(whole * a.d - a.n, 2 * a.d)

\* Math.min(A4_WIDTH / width, A4_HEIGHT / height), in hundredths per point
scaleOf(size) ==
    IF RatLe(Rat(A4_WIDTH, size.width), Rat(A4_HEIGHT, size.height))
    THEN Rat(A4_WIDTH, size.width)
    ELSE Rat(A4_HEIGHT, size.height)

Placement(x, y, width, height) == [x |-> x, y |-> y, width |-> width, height |-> height]

\* registry, processJob and the combine branch: page.drawImage(embeddedImage,
\* { x, y, width: width * scale, height: height * scale })
drawImage(size) ==
    LET scale == scaleOf(size)
        drawWidth == Rat(size.width * scale.n, scale.d)
        drawHeight == Rat(size.height * scale.n, scale.d)
    IN  Placement(HalfRest(A4_WIDTH, drawWidth), HalfRest(A4_HEIGHT, drawHeight),
                  drawWidth, drawHeight)

\* memory, createPDFFromImages: the image takes the page's width, or its
\* height when that makes it too tall (margin = 0).
drawImageMemory(size) ==
    LET availableWidth == Rat(A4_WIDTH, 1)
        availableHeight == Rat(A4_HEIGHT, 1)
        fitHeight == Rat(A4_WIDTH * size.height, size.width)
        tooTall == ~RatLe(fitHeight, availableHeight)
        finalHeight == IF tooTall THEN availableHeight ELSE fitHeight
        finalWidth == IF tooTall THEN Rat(A4_HEIGHT * size.width, size.height)
                      ELSE availableWidth
    IN  Placement(HalfRest(A4_WIDTH, finalWidth), HalfRest(A4_HEIGHT, finalHeight),
                  finalWidth, finalHeight)

InitPlace ==
    /\ variant \in Variants
    /\ upFile = NoUpload
    /\ listing = NoListing
    /\ StoreIdle
    /\ ConvertIdle
    /\ SortIdle
    /\ ServeIdle
    /\ RangeIdle
    /\ QueueIdle
    /\ ResolveIdle
    /\ imgSize \in ImageSizes
    /\ placed = NoPlacement

\* A registry server draws the image on its page.
PlaceRegistry ==
    /\ variant \in {"server", "legacy"}
    /\ placed = NoPlacement
    /\ placed' = drawImage(imgSize)
    /\ UNCHANGED <<variant, upFile, listing, imgSize>>
    /\ UNCHANGED <<convertVars, sortVars, disk, upRes, serveVars, rangeVars,
                   queueVars, resolveVars>>

\* The memory server draws the image on its page.
PlaceMemory ==
    /\ variant = "memory"
    /\ placed = NoPlacement
    /\ placed' = drawImageMemory(imgSize)
    /\ UNCHANGED <<variant, upFile, listing, imgSize>>
    /\ UNCHANGED <<convertVars, sortVars, disk, upRes, serveVars, rangeVars,
                   queueVars, resolveVars>>

NextPlace == PlaceRegistry \/ PlaceMemory

SpecPlace == InitPlace /\ [][NextPlace]_vars

(***************************************************************************)
(* Resolving a page range.  The memory server clamps the pageStart and     *)
(* pageEnd fields of POST /api/convert; the client turns its two range     *)
(* inputs into the set of selected page indices.                           *)
(***************************************************************************)
\* The texts of pageStart and pageEnd: missing, negative, zero, in range,
\* past the end, not a number.
RangeTexts == {"", "-1", "0", "1", "2", "5", "x"}

RangeInputs == [total : 1..MaxPages, pageStart : RangeTexts, pageEnd : RangeTexts]

\* client, updateRangeSettings: for (i = start; i <= end; i++)
\*     if (i <= file.totalPages) newSet.add(i - 1)
updateRangeSettings(startRaw, endRaw, totalPages) ==
    LET start == ParseIntOr(startRaw, 1)
        end == ParseIntOr(endRaw, totalPages)
    IN  {i - 1 : i \in {k \in start..end : k <= totalPages}}

\* The indices of a list of indices.
IndexSet(list) == {list[i] : i \in 1..Len(list)}

InitRange ==
    /\ variant \in {"memory", "server"}
    /\ upFile = NoUpload
    /\ listing = NoListing
    /\ StoreIdle
    /\ ConvertIdle
    /\ SortIdle
    /\ ServeIdle
    /\ PlaceIdle
    /\ QueueIdle
    /\ ResolveIdle
    /\ rangeIn \in RangeInputs
    /\ pageSet = NoPages

\* memory, POST /api/convert: the slice of the page list that is converted.
ResolveRange ==
    /\ variant = "memory"
    /\ pageSet = NoPages
    /\ pageSet' = [resolved |-> TRUE,
                   pages |-> IndexSet(requiredImageFiles("convert", rangeIn.pageStart,
                                                         rangeIn.pageEnd, rangeIn.total))]
    /\ UNCHANGED <<variant, upFile, listing, rangeIn>>
    /\ UNCHANGED <<convertVars, sortVars, disk, upRes, serveVars, placeVars,
                   queueVars, resolveVars>>

\* client: a range input changed.
SelectRange ==
    /\ variant = "server"
    /\ pageSet = NoPages
    /\ pageSet' = [resolved |-> TRUE,
                   pages |-> updateRangeSettings(rangeIn.pageStart, rangeIn.pageEnd,
                                                 rangeIn.total)]
    /\ UNCHANGED <<variant, upFile, listing, rangeIn>>
    /\ UNCHANGED <<convertVars, sortVars, disk, upRes, serveVars, placeVars,
                   queueVars, resolveVars>>

NextRange == ResolveRange \/ SelectRange

SpecRange == InitRange /\ [][NextRange]_vars

(***************************************************************************)
(* The extraction queue on its own: tasks are added, and a started task    *)
(* resolves or rejects.  pqLog records the adds, starts and settlements in *)
(* the order they happen; promise is the state of each add()'s promise.    *)
(***************************************************************************)
Task(at) == [kind |-> "preview", at |-> at]

Event(op, n) == [op |-> op, task |-> n]

\* The tasks a call of next() started, as log events.
startsOf(before, after) ==
    LET new == {n \in DOMAIN after : after[n].at = "running" /\ before[n].at = "queued"}
    IN  IF new = {} THEN <<>> ELSE <<Event("start", CHOOSE n \in new : TRUE)>>

\* How many tasks were added.
Added == Cardinality({i \in 1..Len(pqLog) : pqLog[i].op = "add"})

InitQueue ==
    /\ variant = "server"
    /\ upFile = NoUpload
    /\ listing = NoListing
    /\ StoreIdle
    /\ ConvertIdle
    /\ SortIdle
    /\ ServeIdle
    /\ PlaceIdle
    /\ RangeIdle
    /\ ResolveIdle
    /\ QueueIdle

\* add(fn): queue.push({ fn, resolve, reject }); next()
AddTask ==
    /\ Added < MaxTasks
    /\ LET n == Added + 1
           pushed == With(flights, n, Task("queued"))
           r == pqNext(pushed, Append(queue, n))
       IN  /\ flights' = r.flights
           /\ queue' = r.queue
           /\ promise' = With(promise, n, "pending")
           /\ pqLog' = pqLog \o <<Event("add", n)>> \o startsOf(pushed, r.flights)
    /\ UNCHANGED <<variant, upFile, listing, fileStore, disk, upRes, previewCache,
                   lastRes, deleted, nUp, nPrev, nDel>>
    /\ UNCHANGED <<convertRun, sortVars, placeVars, rangeVars, resolveVars>>

\* A started task settles: .then(resolve).catch(reject), and in the finally
\* running-- and next().
settle(n, outcome) ==
    LET rest == Without(flights, n)
        r == pqNext(rest, queue)
    IN  /\ flights' = r.flights
        /\ queue' = r.queue
        /\ promise' = [promise EXCEPT ![n] = outcome]
        /\ pqLog' = pqLog \o <<Event(outcome, n)>> \o startsOf(rest, r.flights)

\* fn() resolves.
TaskResolves ==
    /\ \E n \in Running(flights) : settle(n, "resolved")
    /\ UNCHANGED <<variant, upFile, listing, fileStore, disk, upRes, previewCache,
                   lastRes, deleted, nUp, nPrev, nDel>>
    /\ UNCHANGED <<convertRun, sortVars, placeVars, rangeVars, resolveVars>>

\* fn() throws or rejects.
TaskRejects ==
    /\ \E n \in Running(flights) : settle(n, "rejected")
    /\ UNCHANGED <<variant, upFile, listing, fileStore, disk, upRes, previewCache,
                   lastRes, deleted, nUp, nPrev, nDel>>
    /\ UNCHANGED <<convertRun, sortVars, placeVars, rangeVars, resolveVars>>

NextQueue == AddTask \/ TaskResolves \/ TaskRejects

SpecQueue == InitQueue /\ [][NextQueue]_vars

\* Every started task eventually settles.
SpecQueueLive == SpecQueue /\ WF_vars(TaskResolves \/ TaskRejects)

(***************************************************************************)
(* Extraction of one page: the entry of the handle's archive whose bytes   *)
(* are returned for a requested name, and the archive kinds whose reader   *)
(* was called for it, in order.                                            *)
(***************************************************************************)
Name11 == <<"1", "1", ".jpg">>

NameD1 == <<"d", "/", "1", ".jpg">>

NameD1Back == <<"d", "\\", "1", ".jpg">>

Name1 == <<"1", ".jpg">>

\* A ZIP whose entry 11.jpg is stored before d/1.jpg, the same entries stored
\* the other way round, and a RAR of the same entries.
ArcSuffixFirst ==
    Archive(<<"m", ".cbz">>, ZipBytes, "zip",
            << Entry(Name11, FALSE, FALSE), Entry(NameD1, FALSE, FALSE) >>)

ArcSuffixLast ==
    Archive(<<"n", ".cbz">>, ZipBytes, "zip",
            << Entry(NameD1, FALSE, FALSE), Entry(Name11, FALSE, FALSE) >>)

ArcRarSuffix ==
    Archive(<<"r", ".cbr">>, RarBytes, "rar",
            << Entry(Name11, FALSE, FALSE), Entry(NameD1, FALSE, FALSE) >>)

ResolveFiles ==
    {ArcSuffixFirst, ArcSuffixLast, ArcRarSuffix, ArcRar, ArcZipCbr, ArcEnc, ArcABC}

\* The names extraction is asked for: entry names, an entry name written with
\* the other separator, a bare basename, and a name no archive holds.
ResolveNames == {Name11, NameD1, NameD1Back, Name1, NameA, NameX, NameDirB, NameP1}

\* The handles the registry of a server holds after one upload.
ResolveHandles(v) ==
    { registerUpload(v, <<>>, UploadId, f)[UploadId] :
        f \in {g \in ResolveFiles : UploadId \in DOMAIN registerUpload(v, <<>>, UploadId, g)} }

\* imageName.replace(/<from>/g, to)
ReplaceSep(name, from, to) ==
    [i \in 1..Len(name) |-> IF name[i] = from THEN to ELSE name[i]]

\* String.prototype.endsWith
EndsWith(s, suffix) ==
    /\ Len(suffix) <= Len(s)
    /\ SubSeq(s, Len(s) - Len(suffix) + 1, Len(s)) = suffix

\* Array.prototype.find: the position of the first entry whose name is one
\* of `accepted`, or 0.
FindEntry(es, accepted) ==
    IF \E i \in 1..Len(es) : es[i].name \in accepted
    THEN CHOOSE i \in 1..Len(es) :
            /\ es[i].name \in accepted
            /\ \A j \in 1..(i - 1) : es[j].name \notin accepted
    ELSE 0

\* The entry names that end with `suffix`.
EndingWith(es, suffix) == {es[i].name : i \in {j \in 1..Len(es) : EndsWith(es[j].name, suffix)}}

\* file.extraction is there for an entry that is a readable file.
HasExtraction(e) == ~e.dir /\ ~e.enc

Extracted(entry, attempts) ==
    [done |-> TRUE, ok |-> TRUE, entry |-> entry, error |-> "", attempts |-> attempts]

ExtractFails(error, attempts) ==
    [done |-> TRUE, ok |-> FALSE, entry |-> <<>>, error |-> error, attempts |-> attempts]

\* server, extractImageBuffer: the ZIP lookup, zip.getEntry and then one find
\* over the entries in archive order.
zipFind(es, imageName) ==
    LET exact == FindEntry(es, {imageName})
        baseName == BaseNameBy(imageName, SEPARATORS)
    IN  IF exact # 0 THEN exact
        ELSE FindEntry(es, {imageName, ReplaceSep(imageName, "\\", "/"),
                            ReplaceSep(imageName, "/", "\\")}
                           \cup EndingWith(es, baseName))

\* server, extractImageBuffer: the RAR lookup, one extract per path variation
\* and then a find over all the extracted files.
RECURSIVE rarFindFrom(_, _, _)
rarFindFrom(es, pathVariations, k) ==
    IF k > Len(pathVariations) THEN 0
    ELSE LET i == FindEntry(es, {pathVariations[k]})
         IN  IF i # 0 /\ HasExtraction(es[i]) THEN i
             ELSE rarFindFrom(es, pathVariations, k + 1)

rarFind(es, imageName) ==
    LET baseName == BaseNameBy(imageName, SEPARATORS)
        pathVariations == << imageName, ReplaceSep(imageName, "/", "\\"),
                             ReplaceSep(imageName, "\\", "/"), baseName >>
        byVariant == rarFindFrom(es, pathVariations, 1)
        matchedFile == FindEntry(es, {imageName} \cup EndingWith(es, baseName))
    IN  IF byVariant # 0 THEN byVariant
        ELSE IF matchedFile # 0 /\ HasExtraction(es[matchedFile]) THEN matchedFile
        ELSE 0

\* server: extractImageBuffer
extractImageBuffer(f, type, imageName) ==
    IF type = "rar-encrypted" THEN ExtractFails("File is password protected", <<>>)
    ELSE IF ZipOpens(f)
    THEN LET i == zipFind(f.entries, imageName)
         IN  IF i # 0 THEN Extracted(f.entries[i].name, <<"zip">>)
             ELSE ExtractFails("File not found in archive", <<"zip">>)
    ELSE IF type = "rar"
    THEN IF RarOpens(f)
         THEN LET i == rarFind(f.entries, imageName)
              IN  IF i # 0 THEN Extracted(f.entries[i].name, <<"zip", "rar">>)
                  ELSE ExtractFails("File not found in archive", <<"zip", "rar">>)
         ELSE ExtractFails("RAR extraction failed", <<"zip", "rar">>)
    ELSE ExtractFails("File not found in archive", <<"zip">>)

\* The mutant of extractImageBufferLegacy: a protected archive is read like
\* any RAR.
extractImageBufferUnguarded(f, type, imageName) ==
    LET i == FindEntry(f.entries, {imageName})
    IN  IF type \in {"rar", "rar-encrypted"}
        THEN IF ~RarOpens(f) THEN ExtractFails("Not a RAR archive", <<"rar">>)
             ELSE IF i # 0 /\ HasExtraction(f.entries[i])
             THEN Extracted(f.entries[i].name, <<"rar">>)
             ELSE ExtractFails("Image extraction failed", <<"rar">>)
        ELSE IF type = "zip"
        THEN IF ~ZipOpens(f) THEN ExtractFails("Not a ZIP archive", <<"zip">>)
             ELSE IF i # 0 THEN Extracted(f.entries[i].name, <<"zip">>)
             ELSE ExtractFails("Image extraction failed", <<"zip">>)
        ELSE ExtractFails("Image extraction failed", <<>>)

\* legacy: extractImageBuffer
extractImageBufferLegacy(f, type, imageName) ==
    LET i == FindEntry(f.entries, {imageName})
    IN  IF type = "rar-encrypted" THEN ExtractFails("File is password protected", <<>>)
        ELSE IF type = "rar"
        THEN IF ~RarOpens(f) THEN ExtractFails("Not a RAR archive", <<"rar">>)
             ELSE IF i # 0 /\ HasExtraction(f.entries[i])
             THEN Extracted(f.entries[i].name, <<"rar">>)
             ELSE ExtractFails("Image extraction failed", <<"rar">>)
        ELSE IF type = "zip"
        THEN IF ~ZipOpens(f) THEN ExtractFails("Not a ZIP archive", <<"zip">>)
             ELSE IF i # 0 THEN Extracted(f.entries[i].name, <<"zip">>)
             ELSE ExtractFails("Image extraction failed", <<"zip">>)
        ELSE ExtractFails("Image extraction failed", <<>>)

\* server, getImagesForJob and the function it returns, for one page of the
\* job: the bulk extraction first, extractImageBuffer when the bulk extraction
\* left the page out.
getImagesForJob(fileData, imageName) ==
    LET f == fileData.file
        es == f.entries
        exact == FindEntry(es, {imageName})
        zipEntry == IF exact # 0 THEN exact
                    ELSE FindEntry(es, {imageName, ReplaceSep(imageName, "\\", "/"),
                                        ReplaceSep(imageName, "/", "\\")})
        bulk == IF ZipOpens(f) THEN <<"zip">>
                ELSE IF fileData.type = "rar" THEN <<"zip", "rar">>
                ELSE <<"zip">>
        fallback == extractImageBuffer(f, fileData.type, imageName)
    IN  IF ZipOpens(f) /\ zipEntry # 0 THEN Extracted(es[zipEntry].name, bulk)
        ELSE IF ~ZipOpens(f) /\ fileData.type = "rar" /\ RarOpens(f)
                /\ exact # 0 /\ HasExtraction(es[exact])
        THEN Extracted(es[exact].name, bulk)
        ELSE [fallback EXCEPT !.attempts = bulk \o @]

\* preview and the direct call: extractImageBuffer of the server at hand.
extractPage(v, fileData, imageName) ==
    IF v = "server" THEN extractImageBuffer(fileData.file, fileData.type, imageName)
    ELSE extractImageBufferLegacy(fileData.file, fileData.type, imageName)

\* processJob and combine: the bytes of one page of a job.
extractJobPage(v, fileData, imageName) ==
    IF v = "server" THEN getImagesForJob(fileData, imageName)
    ELSE extractImageBufferLegacy(fileData.file, fileData.type, imageName)

PageNames(fileData) == {fileData.pages[i] : i \in 1..Len(fileData.pages)}

\* A preview and a job ask for a name of the handle's page list; the function
\* itself takes any name.
Wanted(v) ==
    { w \in [fileData : ResolveHandles(v), imageName : ResolveNames,
             via : {"preview", "job", "call"}] :
        w.via \in {"preview", "job"} => w.imageName \in PageNames(w.fileData) }

InitResolve ==
    /\ variant \in {"server", "legacy"}
    /\ want \in Wanted(variant)
    /\ got = NoBytes
    /\ upFile = NoUpload
    /\ listing = NoListing
    /\ StoreIdle
    /\ ConvertIdle
    /\ SortIdle
    /\ ServeIdle
    /\ PlaceIdle
    /\ RangeIdle
    /\ QueueIdle

resolveFrame ==
    <<variant, upFile, listing, convertVars, sortVars, disk, upRes, serveVars,
      placeVars, rangeVars, queueVars, want>>

\* GET /api/preview/:id/:pageIndex reads its page.
PreviewExtracts ==
    /\ ~got.done
    /\ want.via = "preview"
    /\ got' = extractPage(variant, want.fileData, want.imageName)
    /\ UNCHANGED resolveFrame

\* A conversion or a combination reads one page of a job.
JobExtracts ==
    /\ ~got.done
    /\ want.via = "job"
    /\ got' = extractJobPage(variant, want.fileData, want.imageName)
    /\ UNCHANGED resolveFrame

\* extractImageBuffer is called with a name.
ResolveName ==
    /\ ~got.done
    /\ want.via = "call"
    /\ got' = extractPage(variant, want.fileData, want.imageName)
    /\ UNCHANGED resolveFrame

NextResolve == PreviewExtracts \/ JobExtracts \/ ResolveName

SpecResolve == InitResolve /\ [][NextResolve]_vars

(***************************************************************************)
(* Claims about classification (checked under SpecIngest).                 *)
(***************************************************************************)
Listed == listing.status = "listed"

\* C8: every buffer that starts with 50 4B 03 04, whatever its length and the
\* file's extension, is classified zip, and the first reader called to list
\* it is the ZIP reader.
C8_ZipSignatureClassifiedZip ==
    (Listed /\ StartsWith(upFile.buf, ZIP_SIGNATURE))
        => /\ listing.detected = "zip"
           /\ listing.result.attempts # <<>>
           /\ listing.result.attempts[1] = "zip"

\* C9: every buffer that starts with the seven bytes 52 61 72 21 1A 07 00, a
\* buffer of exactly seven bytes included, is classified rar by the signature
\* checks (detectArchiveType, isValidRAR), whatever the file's extension.
C9_RarSignatureClassifiedRar ==
    (Listed /\ variant \in {"server", "memory"} /\ StartsWith(upFile.buf, RAR_SIGNATURE))
        => listing.detected = "rar"

\* C10: a buffer with neither signature is classified by the declared
\* extension (.cbz zip, .cbr rar); with neither extension it is classified
\* unknown and listing fails with an archive-format error.
C10_FallbackFollowsExtension ==
    (/\ Listed
     /\ variant \in {"server", "memory"}
     /\ ~StartsWith(upFile.buf, ZIP_SIGNATURE)
     /\ ~StartsWith(upFile.buf, RAR_SIGNATURE))
        => /\ ExtName(upFile.name) = ".cbz" => listing.detected = "zip"
           /\ ExtName(upFile.name) = ".cbr" => listing.detected = "rar"
           /\ ExtName(upFile.name) \notin {".cbz", ".cbr"}
                => /\ listing.detected = "unknown"
                   /\ listing.result.error = "Cannot determine archive type"

(***************************************************************************)
(* Claims about conversion (checked under SpecConvert).                    *)
(***************************************************************************)
Done == pc = "done"

Answered == Done /\ res.status = 200

\* The page indices job j of a registry request asks for, read off the request.
Requested(j) ==
    LET p == req.jobs[j].pages
    IN  IF p.all THEN [i \in 1..Len(fileStore[req.jobs[j].fileId].pages) |-> i - 1]
        ELSE p.list

\* The turns of job j's page loop that succeeded, and those that failed.
OkTurns(j) == SelectSeq(log, LAMBDA e : e.job = j /\ e.ok)

FailedTurns(j) == SelectSeq(log, LAMBDA e : e.job = j /\ ~e.ok)

Sources(doc) == [k \in 1..Len(doc) |-> doc[k].src]

\* doc holds one page per succeeded turn of job j, in the order of the turns,
\* each showing the image of the page index the turn was for.
ShowsSucceeded(doc, j) ==
    /\ Len(doc) = Len(OkTurns(j))
    /\ \A k \in 1..Len(doc) :
          LET idx == Requested(j)[OkTurns(j)[k].pos]
          IN  /\ doc[k].image
              /\ doc[k].idx = idx
              /\ doc[k].src = fileStore[req.jobs[j].fileId].pages[idx + 1]

SelectsAll(j) ==
    IF IsMemory THEN req.pageStart = "" /\ req.pageEnd = "" ELSE req.jobs[j].pages.all

QualifyingNames(f) == { e.name : e \in { Qualifying(f)[i] : i \in 1..Len(Qualifying(f)) } }

\* C2: an archive with N qualifying entries is indexed with N pages, and its
\* conversion with the "all" selection has N pages minus the pages that fail,
\* each page showing a qualifying entry.
C2_RoundTrip ==
    /\ \A id \in DOMAIN fileStore :
          /\ fileStore[id].totalPages = Len(Qualifying(fileStore[id].file))
          /\ Len(fileStore[id].pages) = Len(Qualifying(fileStore[id].file))
    /\ (Answered /\ ~IsCombine) =>
          \A i \in 1..Len(results) :
             LET j == results[i].job
                 doc == results[i].data
                 N == Len(Qualifying(JobFile(j)))
             IN  SelectsAll(j) =>
                    /\ Len(doc) = N - Len(FailedTurns(j))
                    /\ Len(doc) <= N
                    /\ \A k \in 1..Len(doc) : doc[k].src \in QualifyingNames(JobFile(j))

SucceededTurns == SelectSeq(log, LAMBDA e : e.ok)

DerivedName(name) == SubSeq(name, 1, Len(name) - 1) \o <<".pdf">>

\* C4: not in combine mode, one resulting PDF is answered as application/pdf
\* under its job's derived name, several are answered as a ZIP with one member
\* per PDF under the jobs' derived names.
C4_Packaging ==
    (Answered /\ ~IsCombine) =>
        /\ Len(results) = 1 =>
              /\ res.ctype = "application/pdf"
              /\ res.filename = DerivedName(JobFile(results[1].job).name)
              /\ res.pdf = results[1].data
              /\ res.members = <<>>
        /\ Len(results) > 1 =>
              /\ res.ctype = "application/zip"
              /\ Len(res.members) = Len(results)
              /\ \A i \in 1..Len(results) :
                    /\ res.members[i].name = DerivedName(JobFile(results[i].job).name)
                    /\ res.members[i].data = results[i].data
        /\ res.ctype = "application/zip" => Len(res.members) > 1
        /\ res.ctype = "application/pdf" => Len(results) = 1

\* A batch of three uploads of which one cannot be read answers a ZIP of two.
C4_Witness ==
    /\ Answered
    /\ IsMemory
    /\ Len(req.files) = 3
    /\ res.ctype = "application/zip"
    /\ Len(res.members) = 2

\* A batch of three uploads of which one converts answers that PDF directly.
C4_WitnessSingle ==
    /\ Answered
    /\ IsMemory
    /\ Len(req.files) = 3
    /\ res.ctype = "application/pdf"
    /\ res.filename = <<"z", ".pdf">>

\* C5: the members of a batch's ZIP are in the order of the input jobs that
\* succeeded.
C5_ZipOrderIsInputOrder ==
    (Answered /\ ~IsCombine /\ res.ctype = "application/zip") =>
        /\ \A i, k \in 1..Len(res.members) :
              i < k => res.members[i].job < res.members[k].job
        /\ { res.members[i].job : i \in 1..Len(res.members) }
              = { j \in 1..NJobs : ~JobFails(j) }

\* Three uploads, the middle one unreadable: the ZIP holds the first, then the
\* third.
C5_Witness ==
    /\ Answered
    /\ IsMemory
    /\ Len(req.files) = 3
    /\ JobFails(2)
    /\ res.ctype = "application/zip"
    /\ res.members[1].job = 1
    /\ res.members[2].job = 3

IsBatch == IF IsMemory THEN req.route = "batch-convert" ELSE req.mode = "batch"

FailedJobs == { j \in 1..NJobs : JobFails(j) }

\* C6: a batch whose jobs all fail answers a failure; a batch with a job that
\* succeeds and a job that fails answers the outputs of those that succeed.
C6_BatchPartialSuccess ==
    (Done /\ IsBatch /\ NJobs > 0) =>
        /\ FailedJobs = 1..NJobs => res.status >= 400
        /\ (FailedJobs # {} /\ FailedJobs # 1..NJobs) =>
              /\ res.status = 200
              /\ { results[i].job : i \in 1..Len(results) } = (1..NJobs) \ FailedJobs

Documents == {pdfDoc} \cup { results[i].data : i \in 1..Len(results) }

\* C7: a page whose extraction, re-encoding or embedding fails adds no page:
\* every page of a document carries its image.
C7_NoBlankPage ==
    \A doc \in Documents : \A k \in 1..Len(doc) : doc[k].image

(***************************************************************************)
(* Claims about page order (checked under SpecSort).                       *)
(***************************************************************************)
NameSet == { names[i] : i \in 1..Len(names) }

\* The number a name of the shape p<digits>.jpg carries.
PageNumber(n) ==
    CASE n = NameP1 -> 1
      [] n = NameP01 -> 1
      [] n = NameP2 -> 2
      [] n = NameP10 -> 10

Numbered == {NameP1, NameP01, NameP2, NameP10}

IsOrdered(s) == \A i, j \in 1..Len(s) : i < j => Compare(variant, s[i], s[j]) <= 0

\* C11: naturalSort is a total preorder on entry names (the sign flips when
\* the arguments are swapped, and it is transitive); digit runs compare as
\* integers, letters compare without regard to case; a sorted list is ordered,
\* holds the same names, and sorting it again leaves it unchanged.
C11_NaturalSortIsTotalPreorder ==
    /\ \A a, b \in NameSet : Compare(variant, a, b) = -Compare(variant, b, a)
    /\ \A a, b, c \in NameSet :
          (Compare(variant, a, b) <= 0 /\ Compare(variant, b, c) <= 0)
              => Compare(variant, a, c) <= 0
    /\ \A a, b \in NameSet \cap Numbered :
          Compare(variant, a, b) = Sign(PageNumber(a) - PageNumber(b))
    /\ \A a, b \in NameSet : ToLower(a) = ToLower(b) => Compare(variant, a, b) = 0
    /\ passes >= 1 =>
          /\ IsOrdered(sorted)
          /\ Len(sorted) = Len(names)
          /\ \A n \in NameSet :
                Cardinality({i \in 1..Len(names) : names[i] = n})
                    = Cardinality({i \in 1..Len(sorted) : sorted[i] = n})
          /\ names = <<NameP2, NameP10, NameP1>> => sorted = <<NameP1, NameP2, NameP10>>
          /\ SortNames(variant, sorted) = sorted

\* page2, page10, page1 was sorted twice and reads page1, page2, page10.
C11_Witness ==
    /\ passes = 2
    /\ names = <<NameP2, NameP10, NameP1>>
    /\ sorted = <<NameP1, NameP2, NameP10>>

(***************************************************************************)
(* Claims about ingestion (checked under SpecIngest).                      *)
(***************************************************************************)
\* The RAR reader listed the upload and met a qualifying entry that is
\* flagged encrypted.
EncryptedRarListed ==
    /\ Listed
    /\ RarOpens(upFile)
    /\ \E i \in 1..Len(listing.result.attempts) : listing.result.attempts[i] = "rar"
    /\ \E i \in 1..Len(Qualifying(upFile)) : Qualifying(upFile)[i].enc

\* C12: a RAR listing that meets an encrypted qualifying entry answers type
\* rar-encrypted with an empty page list, and no handle with pages is stored.
C12_EncryptedRarHasNoPages ==
    EncryptedRarListed =>
        /\ listing.result.type = "rar-encrypted"
        /\ listing.result.imageFiles = <<>>
        /\ \A id \in DOMAIN fileStore : fileStore[id].pages = <<>>

\* The upload cannot be converted: no reader opens it, an entry that
\* qualifies is encrypted, or no entry qualifies.
ArchiveLevelError ==
    \/ upFile.kind = "bad"
    \/ Len(Qualifying(upFile)) = 0
    \/ upFile.kind = "rar" /\ \E i \in 1..Len(Qualifying(upFile)) : Qualifying(upFile)[i].enc

\* C13: an upload with an archive-level error is answered with an error that
\* describes it, never with a success that leaves the archive out.
C13_ArchiveErrorSurfaced ==
    (Listed /\ ArchiveLevelError) =>
        /\ upRes.status >= 400
        /\ upRes.error # ""

(***************************************************************************)
(* Claims about serving the registry (checked under SpecServe).            *)
(***************************************************************************)
\* Every handle has pages, and as many as totalPages says.
HandlesHavePages ==
    \A id \in DOMAIN fileStore :
        /\ Len(fileStore[id].pages) > 0
        /\ fileStore[id].totalPages = Len(fileStore[id].pages)

\* A step leaves the page list of every handle it keeps as it was, and the
\* upload of an archive without images adds no handle and leaves no file.
PagesStay ==
    /\ \A id \in DOMAIN fileStore \cap DOMAIN fileStore' :
            fileStore'[id].pages = fileStore[id].pages
    /\ (nUp' = nUp + 1 /\ Len(Qualifying(upFile')) = 0)
            => /\ fileStore' = fileStore
               /\ UploadIds[nUp'] \notin disk'

\* C14: every handle in the registry has a non-empty page list whose length is
\* its totalPages; no upload, listing, preview or delete step changes the page
\* list of a handle that stays registered; and the upload of an archive with
\* no image adds no handle and leaves no stored file.
C14_HandlesKeepPages == []HandlesHavePages /\ [][PagesStay]_vars

\* A handle was registered and previewed, and then an archive without images
\* was uploaded and dropped.
C14_Witness ==
    /\ "f1" \in DOMAIN fileStore
    /\ nUp = 2
    /\ upFile = ArcNoImg
    /\ "f2" \notin disk
    /\ lastRes # NoAnswer
    /\ lastRes.kind = "preview"
    /\ lastRes.status = 200

\* C15: once a delete of an id has been answered, the cache holds no key of
\* that id and a preview request for it that arrives later is answered 404,
\* whatever previews were queued or running when the delete arrived.
C15_DeleteLeavesNothingCached ==
    /\ \A id \in deleted : \A i \in 1..Len(previewCache) : previewCache[i].id # id
    /\ (lastRes # NoAnswer /\ lastRes.kind = "preview" /\ lastRes.late)
            => lastRes.status = 404

\* The keys of a cache.
Keys(cache) == {cache[i] : i \in 1..Len(cache)}

\* A delete was answered in this step.
DeleteAnswered ==
    \E n \in DOMAIN flights \ DOMAIN flights' : flights[n].kind = "delete"

\* The cache never exceeds its capacity and holds a key once.
CacheBounded ==
    /\ Len(previewCache) <= CacheCapacity
    /\ \A i, j \in 1..Len(previewCache) : previewCache[i] = previewCache[j] => i = j

\* A step that is not a delete's changes the cache only by dropping its first
\* key, and only when it is full, and by putting the answered key last; a
\* step that serves a hit leaves the cache as it is.
CacheIsFifo ==
    /\ (previewCache' # previewCache /\ ~DeleteAnswered)
        => LET kept == IF Len(previewCache) >= CacheCapacity
                       THEN Tail(previewCache) ELSE previewCache
               key == CacheKey(lastRes'.id, lastRes'.raw)
           IN  /\ lastRes'.kind = "preview"
               /\ lastRes'.status = 200
               /\ previewCache' = IF key \in Keys(kept) THEN kept ELSE Append(kept, key)
               /\ lastRes'.evicted = IF Len(previewCache) >= CacheCapacity
                                     THEN <<Head(previewCache)>> ELSE <<>>
    /\ (nPrev' = nPrev + 1 /\ lastRes' # NoAnswer /\ lastRes'.hit)
        => previewCache' = previewCache

\* C16: the preview cache never exceeds its capacity; an insertion into a full
\* cache evicts exactly the key inserted earliest among those held and keeps
\* the others, so that C+1 distinct insertions evict the first one; and a cache
\* hit does not change the cache, hence not which key is evicted next.
C16_CacheEvictsOldest == []CacheBounded /\ [][CacheIsFifo]_vars

\* A full cache took a new key: the first key was evicted, the others are held.
C16_Witness ==
    /\ lastRes # NoAnswer
    /\ lastRes.kind = "preview"
    /\ lastRes.status = 200
    /\ ~lastRes.hit
    /\ Len(lastRes.evicted) = 1
    /\ Len(previewCache) = CacheCapacity
    /\ lastRes.evicted[1] \notin Keys(previewCache)
    /\ previewCache[CacheCapacity] = CacheKey(lastRes.id, lastRes.raw)

\* The handlers suspended by this step.
Suspended == DOMAIN flights' \ DOMAIN flights

\* A delete that arrives changes neither the registry nor the cache; for an
\* id that is not registered it is answered with success at once.  A delete
\* that finishes is answered with success, and removes the handle and the
\* cached keys of its id and nothing else.
DeleteIsLocal ==
    /\ nDel' = nDel + 1
        => /\ fileStore' = fileStore
           /\ previewCache' = previewCache
           /\ \A n \in Suspended : flights'[n].id \in DOMAIN fileStore
           /\ Suspended = {}
                => /\ lastRes' # NoAnswer
                   /\ lastRes'.kind = "delete"
                   /\ lastRes'.status = 200
                   /\ lastRes'.id \notin DOMAIN fileStore
    /\ \A n \in DOMAIN flights \ DOMAIN flights' :
          flights[n].kind = "delete"
            => LET X == flights[n].id IN
               /\ lastRes'.kind = "delete"
               /\ lastRes'.id = X
               /\ lastRes'.status = 200
               /\ DOMAIN fileStore' = DOMAIN fileStore \ {X}
               /\ \A y \in DOMAIN fileStore' : fileStore'[y] = fileStore[y]
               /\ previewCache' = SelectSeq(previewCache, LAMBDA k : k.id # X)

\* C17: a delete of an id that is not registered is answered with success and
\* leaves the registry and the cache unchanged; every delete of X that
\* finishes leaves X without handle and without cached key and is answered
\* with success, so a second delete ends in the state of the first; and no
\* delete of X removes the handle or a cached key of another id.
C17_DeleteIsIdempotent == [][DeleteIsLocal]_vars

\* An id was deleted and then deleted again while another id keeps its
\* handle and its cached preview.
C17_Witness ==
    /\ lastRes # NoAnswer
    /\ lastRes.kind = "delete"
    /\ ~lastRes.known
    /\ lastRes.id \in deleted
    /\ Len(previewCache) > 0
    /\ \E y \in DOMAIN fileStore : y # lastRes.id /\ previewCache[1].id = y

\* The decimal text of a page index.
IndexText(i) ==
    CASE i = 0 -> "0" [] i = 1 -> "1" [] i = 2 -> "2" [] OTHER -> "none"

\* The text names an integer in [0, n).
NamesPage(raw, n) ==
    \/ \E i \in 0..(n - 1) : i <= 2 /\ raw = IndexText(i)
    \/ raw = "01" /\ 1 < n

\* C18: a preview request for an id that is not registered is answered 404; one
\* for a registered id whose index text names no integer in [0, totalPages)
\* (negative, too large, not a number) is answered 400; and for neither an
\* extraction is admitted.
C18_PreviewRejectsBadRequests ==
    /\ (lastRes # NoAnswer /\ lastRes.kind = "preview")
        => /\ ~lastRes.known => lastRes.status = 404
           /\ (lastRes.known /\ ~NamesPage(lastRes.raw, Len(lastRes.pages)))
                => lastRes.status = 400
    /\ \A n \in DOMAIN flights :
          flights[n].kind = "preview"
            => NamesPage(flights[n].raw, Len(flights[n].pages))

(***************************************************************************)
(* Claims about re-encoding (checked under SpecConvert).                   *)
(***************************************************************************)
\* C19: a page is re-encoded as PNG exactly when its source image is a PNG and
\* the requested quality is 100, and as JPEG otherwise, in every document of a
\* single, batch or combine conversion.
C19_PngOnlyAtFullQuality ==
    \A doc \in Documents : \A k \in 1..Len(doc) :
        doc[k].image
            => (doc[k].format = "png"
                    <=> (SourceFormat(doc[k].src) = "png" /\ req.settings.quality = "100"))

(***************************************************************************)
(* Claims about placement (checked under SpecPlace).                       *)
(***************************************************************************)
Zero == Rat(0, 1)

\* C20: an image is drawn inside the canvas [0, 595.28] x [0, 841.89], with
\* its aspect ratio, centred on both axes, and never larger than its own size.
C20_PlacedInsideCentredNotEnlarged ==
    placed # NoPlacement
        => /\ RatLe(Zero, placed.x)
           /\ RatLe(Zero, placed.y)
           /\ RatLe(RatAdd(placed.x, placed.width), Rat(A4_WIDTH, 1))
           /\ RatLe(RatAdd(placed.y, placed.height), Rat(A4_HEIGHT, 1))
           /\ placed.width.n * placed.height.d * imgSize.height
                = placed.height.n * placed.width.d * imgSize.width
           /\ RatEq(RatAdd(RatAdd(placed.x, placed.x), placed.width), Rat(A4_WIDTH, 1))
           /\ RatEq(RatAdd(RatAdd(placed.y, placed.y), placed.height), Rat(A4_HEIGHT, 1))
           /\ RatLe(placed.width, Rat(100 * imgSize.width, 1))
           /\ RatLe(placed.height, Rat(100 * imgSize.height, 1))

(***************************************************************************)
(* Claims about page ranges (checked under SpecRange).                     *)
(***************************************************************************)
\* C21: for an archive of one page or more and any pageStart and pageEnd
\* (missing, zero, negative, not a number, past the end, end before start) the
\* resolved range satisfies 1 <= pageStart <= pageEnd <= totalPages: the pages
\* converted are a non-empty contiguous slice of the page list.
C21_RangeIsNonEmptySlice ==
    pageSet.resolved
        => \E a, b \in 1..rangeIn.total :
              /\ a <= b
              /\ pageSet.pages = {i - 1 : i \in a..b}

(***************************************************************************)
(* Claims about the extraction queue (checked under SpecServe).            *)
(***************************************************************************)
\* The previews admitted and not started.
Waiting(fl) == {n \in DOMAIN fl : fl[n].kind = "preview" /\ fl[n].at = "queued"}

\* C22: on the current server at most QueueConcurrency (2) preview extractions
\* run at any time, whatever previews arrive, and every admitted preview waits
\* in the extraction queue until the queue starts it.
C22_AtMostTwoExtractionsRun ==
    variant = "server"
        => /\ Cardinality(Running(flights)) <= QueueConcurrency
           /\ Waiting(flights) = {queue[i] : i \in 1..Len(queue)}
           /\ \A i, j \in 1..Len(queue) : queue[i] = queue[j] => i = j
           /\ \A n \in DOMAIN flights :
                flights[n].kind = "preview" => n \in Running(flights) \cup Waiting(flights)

\* Two extractions run and a third preview waits for a slot.
C22_Witness ==
    /\ variant = "server"
    /\ Cardinality(Running(flights)) = QueueConcurrency
    /\ Len(queue) = 1
    /\ flights[queue[1]].at = "queued"

\* The previews whose request was answered by its timeout.
Abandoned(fl) == {n \in DOMAIN fl : fl[n].kind = "preview" /\ fl[n].timedOut}

\* C23: a preview that exceeds its timeout gives its slot of the extraction
\* queue back at the timeout: no abandoned preview holds a slot or a place in
\* the queue, so no preview waits while fewer than QueueConcurrency previews
\* that are still awaited run.
C23_TimeoutReleasesSlot ==
    variant = "server"
        => /\ Abandoned(flights) \cap Running(flights) = {}
           /\ Abandoned(flights) \cap Waiting(flights) = {}
           /\ Waiting(flights) \ Abandoned(flights) # {}
                => Cardinality(Running(flights) \ Abandoned(flights)) >= QueueConcurrency

(***************************************************************************)
(* Claims about the queue on its own (checked under SpecQueueLive).        *)
(***************************************************************************)
\* The tasks of the log events of the given kinds, in log order.
TasksOf(ops) ==
    LET RECURSIVE upTo(_)
        upTo(k) == IF k = 0 THEN <<>>
                   ELSE IF pqLog[k].op \in ops THEN Append(upTo(k - 1), pqLog[k].task)
                   ELSE upTo(k - 1)
    IN  upTo(Len(pqLog))

IsPrefix(s, t) == Len(s) <= Len(t) /\ \A i \in 1..Len(s) : s[i] = t[i]

Settled(n) == \E i \in 1..Len(pqLog) : pqLog[i].task = n /\ pqLog[i].op \in {"resolved", "rejected"}

PromiseSettled(n) == n \in DOMAIN promise /\ promise[n] # "pending"

\* Tasks start in the order they were added; none waits while a slot is free;
\* the running tasks are the started ones that have not settled, whichever
\* way the others settled; a promise is settled exactly as its task was.
QueueSound ==
    /\ IsPrefix(TasksOf({"start"}), TasksOf({"add"}))
    /\ Cardinality(Running(flights)) <= QueueConcurrency
    /\ queue # <<>> => Cardinality(Running(flights)) = QueueConcurrency
    /\ Running(flights) = {n \in 1..Added :
                             (\E i \in 1..Len(pqLog) : pqLog[i] = Event("start", n))
                             /\ ~Settled(n)}
    /\ \A n \in 1..Added :
          /\ promise[n] = "pending" <=> ~Settled(n)
          /\ promise[n] # "pending"
                => \E i \in 1..Len(pqLog) : pqLog[i] = Event(promise[n], n)

\* C24: the extraction queue starts tasks in the order they were added, lets no
\* task wait while fewer than `concurrency` run, frees the slot of a task that
\* rejects as it does for one that resolves, and, when every started task
\* settles, starts every added task and settles its add() promise with the
\* task's outcome, after which nothing runs.
C24_QueueIsFifoAndLeakFree ==
    /\ []QueueSound
    /\ \A n \in 1..MaxTasks : (Added >= n) ~> PromiseSettled(n)
    /\ (flights # <<>>) ~> (flights = <<>> /\ queue = <<>>)

\* Two tasks waited behind two running ones, one task rejected, and all have
\* settled.
C24_Witness ==
    /\ Added = MaxTasks
    /\ Len(pqLog) >= 6
    /\ pqLog[5].op = "add"
    /\ pqLog[6].op = "add"
    /\ \A n \in 1..MaxTasks : promise[n] # "pending"
    /\ \E n \in 1..MaxTasks : promise[n] = "rejected"
    /\ flights = <<>>

(***************************************************************************)
(* Claims about extraction (checked under SpecResolve).                    *)
(***************************************************************************)
OtherKind(kind) == IF kind = "rar" THEN "zip" ELSE "rar"

Tried(kind) == \E i \in 1..Len(got.attempts) : got.attempts[i] = kind

\* C25: the first archive kind whose reader is called for a page is the kind
\* of the handle, and when the page is not obtained from it the reader of the
\* other kind is called before the extraction fails.
C25_DetectedKindIsTriedFirst ==
    (got.done /\ want.fileData.type \in {"zip", "rar"}) =>
        /\ got.attempts # <<>>
        /\ got.attempts[1] = want.fileData.type
        /\ (~got.ok => Tried(OtherKind(want.fileData.type)))

\* The place of an entry name in the order of the name variants: the name
\* itself, the name with "/" for "\", the name with "\" for "/", a name that
\* ends with the basename; 5 for a name that matches no variant.
VariantRank(entryName, imageName) ==
    IF entryName = imageName THEN 1
    ELSE IF entryName = ReplaceSep(imageName, "\\", "/") THEN 2
    ELSE IF entryName = ReplaceSep(imageName, "/", "\\") THEN 3
    ELSE IF EndsWith(entryName, BaseNameBy(imageName, SEPARATORS)) THEN 4
    ELSE 5

C27_ProtectedArchiveIsRefusedAtOnce ==
    (got.done /\ want.fileData.type = "rar-encrypted") =>
        /\ ~got.ok
        /\ got.error = "File is password protected"
        /\ got.attempts = <<>>

C27_Witness ==
    /\ got.done
    /\ want.fileData.type = "rar-encrypted"
    /\ want.via = "job"
    /\ want.fileData.file.kind = "rar"

(***************************************************************************)
(* Claims about the order of the readers (checked under SpecIngest).       *)
(***************************************************************************)
ReaderOpens(kind, f) == IF kind = "zip" THEN ZipOpens(f) ELSE RarOpens(f)

ReaderCalled(kind) ==
    \E i \in 1..Len(listing.result.attempts) : listing.result.attempts[i] = kind

\* C28: listing calls the reader of the detected kind first, and when that
\* reader throws it calls the reader of the other kind before the archive is
\* given up, whether the kind was detected from the bytes or the extension.
C28_OtherKindIsTriedAfterFailure ==
    (listing.status = "listed" /\ listing.detected \in {"zip", "rar"}) =>
        /\ listing.result.attempts # <<>>
        /\ listing.result.attempts[1] = listing.detected
        /\ (~ReaderOpens(listing.detected, upFile)
                => ReaderCalled(OtherKind(listing.detected)))

(***************************************************************************)
(* Claims about the cache's keys (checked under SpecServe).                *)
(***************************************************************************)
\* A key the cache held is gone after a step that is not a delete's only when
\* the cache was full and the key the step inserts was not held.
EvictsOnlyForNewKey ==
    (~DeleteAnswered /\ Keys(previewCache) \ Keys(previewCache') # {})
        => /\ Len(previewCache) >= CacheCapacity
           /\ lastRes'.kind = "preview"
           /\ CacheKey(lastRes'.id, lastRes'.raw) \notin Keys(previewCache)

\* C29: the preview cache never holds more entries than its capacity, under
\* any interleaving of previews and deletes, and an entry is evicted only when
\* a key that is not cached is inserted into a full cache.
C29_EvictionOnlyForNewKey ==
    [](Len(previewCache) <= CacheCapacity) /\ [][EvictsOnlyForNewKey]_vars

\* The page a cached key stands for.
PageOf(key) == <<key.id, ParseIntRaw(key.raw).val>>

\* C30: the cache holds at most one entry for an archive id and a page index,
\* so previews of one page asked for as "1" and as "01" share one entry.
C30_OneEntryPerPage ==
    \A i, j \in 1..Len(previewCache) :
        PageOf(previewCache[i]) = PageOf(previewCache[j]) => i = j

====
